---- MODULE Spec2Model ----
(***************************************************************************)
(* Async IP Connections: the asynchronous facade (async_ip_network.c), the *)
(* synchronous IP layer under it (ip_network.c, poll back-end) and the     *)
(* sockets they use, as a state machine of three kinds of threads: the     *)
(* application thread, the reader worker and the writer worker.            *)
(***************************************************************************)
EXTENDS Integers, Sequences, FiniteSets, TLC

\* ------------------------------------------------------------------------
\* Program constants
\* ------------------------------------------------------------------------
QUEUE_MAX_ITEMS == 10
IP_MAX_MESSAGE_LENGTH == 512
IP_CONNECTION_INVALID_ID == -1
IP_SERVER == 1
IP_CLIENT == 2
IP_TCP == 16
IP_UDP == 32
INVALID_SOCKET == -1
REMOVED_FD == 65535
PORT_MIN == 49152
NULL == 0

\* ------------------------------------------------------------------------
\* Bounds of the model
\* ------------------------------------------------------------------------
\* descriptors the process may have open at once (3, 4, ...)
MaxFds == 3
\* OpenConnection calls of the application in one behaviour
MaxOpens == 2
\* WriteMessage calls of the application in one burst: one more than a
\* queue holds
MaxWrites == 11
\* WriteMessage calls of the application when it also reads at any pace
MaxFlowWrites == 5
\* messages the application reads after a burst
MaxReads == 2
\* CloseConnection calls of the application in one behaviour
MaxCloses == 2
\* worker threads of each kind that can exist at once (a join that times
\* out leaves its worker behind)
MaxThreads == 2
\* GetActivesNumber calls of the application in one behaviour
MaxCounts == 2
\* WriteMessage calls, and CloseConnection calls with an identifier that is
\* not registered, when the application calls every public function
MaxCallWrites == 1
MaxCallCloses == 1
\* WriteMessage calls when the application also sets the message length
MaxLengthWrites == 3
\* the message length the application sets besides IP_MAX_MESSAGE_LENGTH:
\* room for a message of 1 character and its terminator
ShortLength == 2
\* datagrams that arrive from the network in one behaviour
MaxDatagrams == 2
\* OpenConnection and CloseConnection calls while datagrams arrive
MaxUdpOpens == 1
MaxUdpCloses == 1
\* calls of CloseConnection and of WriteMessage while a peer goes away
MaxPeerCloses == 2
MaxPeerWrites == 1
\* calls of CloseConnection and of WriteMessage around a broadcast
MaxBroadcastCloses == 1
MaxBroadcastWrites == 1
\* calls of OpenConnection, CloseConnection and WriteMessage around an
\* end-of-file
MaxEofOpens == 3
MaxEofCloses == 1
MaxEofWrites == 1
\* the largest descriptor of the select build's scenario
MaxLegacyFd == 5

FirstFd == 3
FDs == FirstFd .. (FirstFd + MaxFds - 1)
PollCap == MaxFds + 1
Port == PORT_MIN + 48

VARIABLES
  sockets,                 \* the host's descriptors: fd -> socket state
  polledSocketsList,       \* ip_network.c: array of pollfd (fd, revents)
  polledSocketsNumber,     \* ip_network.c: entries of the array in use
                           \* (select build: the high-water mark)
  polledSocketsSet,        \* ip_network.c, select build: the fd_set waited on
  connections,             \* heap of IPConnectionData, by reference 1, 2, ...
  globalConnectionsList,   \* async_ip_network.c: the registry (TSMap) or NULL
  isNetworkRunning,        \* async_ip_network.c: the workers' running flag
  activeConnectionsNumber, \* the static local of AsyncIP_GetActivesNumber
  readThreads,             \* reader worker threads, by slot
  writeThreads,            \* writer worker threads, by slot
  globalReadThread,        \* handle (slot) of the reader started last
  globalWriteThread,       \* handle (slot) of the writer started last
  app,                     \* the application thread: its call in progress
  calls,                   \* how many calls of each kind the application made
                           \* and how many datagrams arrived from the network
  fault,                   \* a thread used a registry entry that no longer
                           \* exists (removed or discarded with the registry)
  hist                     \* per connection reference: messages written, sent,
                           \* received and read so far, whether a write found
                           \* the write queue full (the warning WriteMessage
                           \* logs) and whether the reader found the read
                           \* queue full (observation only)

vars == << sockets, polledSocketsList, polledSocketsNumber, polledSocketsSet,
           connections,
           globalConnectionsList, isNetworkRunning, activeConnectionsNumber,
           readThreads, writeThreads, globalReadThread, globalWriteThread,
           app, calls, fault, hist >>

\* ------------------------------------------------------------------------
\* Sequences
\* ------------------------------------------------------------------------
Min(S) == CHOOSE x \in S : \A y \in S : x <= y

RECURSIVE SetToSortedSeq(_)
SetToSortedSeq(S) ==
  IF S = {} THEN << >>
  ELSE LET m == Min(S) IN << m >> \o SetToSortedSeq(S \ {m})

Range(s) == { s[i] : i \in DOMAIN s }

IsPrefix(s, t) == Len(s) <= Len(t) /\ \A i \in 1..Len(s) : s[i] = t[i]

\* s is a subsequence of t (order kept, elements of t possibly left out);
\* the sequences compared here have no repeated elements
IsSubSeq(s, t) ==
  /\ \A i \in 1..Len(s) : \E j \in 1..Len(t) : s[i] = t[j]
  /\ \A i, k \in 1..Len(s) : i < k =>
        \E j, l \in 1..Len(t) : j < l /\ s[i] = t[j] /\ s[k] = t[l]

\* ------------------------------------------------------------------------
\* The host's sockets (the platform socket API the code calls)
\* ------------------------------------------------------------------------
ClosedSocket ==
  [ state |-> "closed", family |-> "none", port |-> 0, peer |-> 0,
    listener |-> 0, inbox |-> << >>, pending |-> << >>, eof |-> FALSE ]

\* Addresses (struct sockaddr_in / sockaddr_in6): family, host, port. Hosts
\* are numbered; the host strings the application can pass resolve to IPv4
\* addresses (Hosts4), to IPv6 addresses (Hosts6) or not at all (BadHost).
Hosts4 == { 1, 2 }
Hosts6 == { 3, 4 }
BadHost == 5
AnyHost == 0

HostFamily(host) == IF host \in Hosts4 THEN "AF_INET" ELSE "AF_INET6"

Address(family, host, port) == [ family |-> family, host |-> host, port |-> port ]

NoAddress == Address("none", 0, 0)

\* the address of this host that a datagram it sends carries as its source
LocalHost(family) == IF family = "AF_INET" THEN 1 ELSE 3

IsOpenFd(S, fd) == fd \in FDs /\ S[fd].state # "closed"

\* socket(): the lowest free descriptor, INVALID_SOCKET when none is left
OsSocket(S) ==
  IF \E fd \in FDs : S[fd].state = "closed"
  THEN Min({ fd \in FDs : S[fd].state = "closed" })
  ELSE INVALID_SOCKET

Listener(S, port) ==
  IF \E fd \in FDs : S[fd].state = "listen" /\ S[fd].port = port
  THEN CHOOSE fd \in FDs : S[fd].state = "listen" /\ S[fd].port = port
  ELSE INVALID_SOCKET

RECURSIVE DropPending(_, _)
DropPending(pend, fd) ==
  IF pend = << >> THEN << >>
  ELSE IF Head(pend).from = fd THEN Tail(pend)
       ELSE << Head(pend) >> \o DropPending(Tail(pend), fd)

\* close() (with the shutdown() before it, where the code calls one)
OsClose(S, fd) ==
  IF ~IsOpenFd(S, fd) THEN S
  ELSE LET s == S[fd] IN
    [ g \in FDs |->
        IF g = fd THEN ClosedSocket
        ELSE IF s.state = "stream" /\ s.peer = g
          THEN [ S[g] EXCEPT !.eof = TRUE, !.peer = 0 ]
        ELSE IF s.state = "stream" /\ s.listener = g
          THEN [ S[g] EXCEPT !.pending = DropPending(@, fd) ]
        ELSE IF s.state = "listen" /\ S[g].state = "stream" /\ S[g].listener = fd
          THEN [ S[g] EXCEPT !.eof = TRUE, !.listener = 0 ]
        ELSE S[g] ]

RECURSIVE AppendPending(_, _, _)
AppendPending(pend, fd, m) ==
  IF pend = << >> THEN << >>
  ELSE IF Head(pend).from = fd
       THEN << [ Head(pend) EXCEPT !.data = Append(@, m) ] >> \o Tail(pend)
       ELSE << Head(pend) >> \o AppendPending(Tail(pend), fd, m)

\* send() on a stream socket: TRUE and the sockets after it, or FALSE
OsSendOk(S, fd) ==
  /\ IsOpenFd(S, fd)
  /\ S[fd].state = "stream"
  /\ (S[fd].peer # 0 \/ S[fd].listener # 0)

OsSend(S, fd, m) ==
  IF ~OsSendOk(S, fd) THEN S
  ELSE IF S[fd].peer # 0
    THEN [ S EXCEPT ![S[fd].peer].inbox = Append(@, m) ]
    ELSE [ S EXCEPT ![S[fd].listener].pending = AppendPending(@, fd, m) ]

\* recv() on a non-blocking stream socket: "msg", "eof" (0 bytes) or "err"
OsRecvKind(S, fd) ==
  IF ~IsOpenFd(S, fd) \/ S[fd].state # "stream" THEN "err"
  ELSE IF S[fd].inbox # << >> THEN "msg"
  ELSE IF S[fd].eof THEN "eof"
  ELSE "err"

\* what poll() reports for one descriptor
Readiness(S, fd) ==
  IF ~IsOpenFd(S, fd) THEN "nval"
  ELSE IF S[fd].state = "listen"
    THEN (IF S[fd].pending # << >> THEN "rd" ELSE "none")
  ELSE IF S[fd].inbox # << >> \/ S[fd].eof THEN "rd"
  ELSE "none"

\* the local port bind() gives a datagram socket bound to port 0
EphemeralPort(fd) == PORT_MIN + fd

\* a datagram from address src arrives on datagram socket fd; the source is
\* reported in the socket's address family
OsDeliver(S, fd, src, m) ==
  [ S EXCEPT ![fd].inbox =
      Append(@, [ from |-> Address(S[fd].family, src.host, src.port),
                  data |-> m ]) ]

\* sendto() on a datagram socket: the datagram reaches the datagram socket
\* of this host bound to the destination port, if there is one, and is lost
\* otherwise
OsSendToOk(S, fd) == IsOpenFd(S, fd) /\ S[fd].state = "dgram"

OsSendTo(S, fd, dest, m) ==
  IF ~OsSendToOk(S, fd) THEN S
  ELSE LET bound == { g \in FDs : /\ S[g].state = "dgram"
                                  /\ S[g].port = dest.port
                                  /\ S[g].family = dest.family }
       IN IF bound = {} THEN S
          ELSE OsDeliver(S, Min(bound),
                         Address(S[fd].family, LocalHost(S[fd].family),
                                 S[fd].port), m)

\* recvfrom( MSG_PEEK ) on a non-blocking datagram socket: TRUE when a
\* datagram is there; its source address is that of the first datagram
OsPeekOk(S, fd) ==
  IsOpenFd(S, fd) /\ S[fd].state = "dgram" /\ S[fd].inbox # << >>

OsPeekFrom(S, fd) == Head(S[fd].inbox).from

\* ------------------------------------------------------------------------
\* Synchronous IP layer (ip_network.c, poll back-end)
\* ------------------------------------------------------------------------
\* The state of the layer and of the host is threaded through its functions
\* as a record K = [S: sockets, L: polledSocketsList, N: polledSocketsNumber,
\* C: connections].

ZeroPoller == [ fd |-> 0, revents |-> "none" ]

\* ARE_EQUAL_IP_ADDRESSES: an IPv4 first address is compared by port only,
\* an IPv6 one by port and address bytes
ARE_EQUAL_IPV4_ADDRESSES(address_1, address_2) ==
  address_1.family = "AF_INET" /\ address_1.port = address_2.port

ARE_EQUAL_IPV6_ADDRESSES(address_1, address_2) ==
  /\ address_1.family = "AF_INET6"
  /\ address_1.port = address_2.port
  /\ address_1.host = address_2.host

ARE_EQUAL_IP_ADDRESSES(address_1, address_2) ==
  \/ ARE_EQUAL_IPV4_ADDRESSES(address_1, address_2)
  \/ ARE_EQUAL_IPV6_ADDRESSES(address_1, address_2)

\* CompareSockets orders pollers by descriptor value
CompareSockets(p1, p2) == p1.fd - p2.fd

RECURSIVE InsertByFd(_, _)
InsertByFd(sorted, e) ==
  IF sorted = << >> THEN << e >>
  ELSE IF CompareSockets(e, Head(sorted)) < 0 THEN << e >> \o sorted
       ELSE << Head(sorted) >> \o InsertByFd(Tail(sorted), e)

RECURSIVE SortByFd(_)
SortByFd(s) ==
  IF s = << >> THEN << >> ELSE InsertByFd(SortByFd(Tail(s)), Head(s))

\* qsort( polledSocketsList, n, ... ): the first n entries, sorted
QSortPolled(list, n) ==
  SortByFd(SubSeq(list, 1, n)) \o SubSeq(list, n + 1, Len(list))

\* bsearch( &cmpPoller, polledSocketsList, n, ... ): index or NULL
BSearchPolled(list, n, fd) ==
  IF \E i \in 1..n : list[i].fd = fd
  THEN CHOOSE i \in 1..n : list[i].fd = fd
  ELSE NULL

\* the descriptor a connection reads through its SocketPoller pointer
SocketFd(K, ref) == K.L[K.C[ref].socket].fd

IP_IsServerData(c) ==
  c.ref_Close = "CloseTCPServer" \/ c.ref_Close = "CloseUDPServer"

IP_IsServer(K, ref) ==
  IF ref = NULL THEN FALSE ELSE IP_IsServerData(K.C[ref])

IP_GetClientsNumber(K, ref) ==
  IF ref = NULL THEN 0
  ELSE IF IP_IsServer(K, ref) THEN K.C[ref].clientsCount
  ELSE 1

\* AddConnection: a new IPConnectionData for socketFD, its poller found or
\* inserted in the sorted array. The result is K with the new connection
\* last in K.C.
AddConnection(K, socketFD, address, transportProtocol, networkRole) ==
  LET found == BSearchPolled(K.L, K.N, socketFD)
      slot  == IF found # NULL THEN found ELSE K.N + 1
      list  == IF found # NULL THEN K.L
               ELSE QSortPolled([ K.L EXCEPT ![K.N + 1].fd = socketFD ], K.N + 1)
      num   == IF found # NULL THEN K.N ELSE K.N + 1
      conn  == [ alive |-> TRUE,
                 \* the descriptor the connection was created for
                 \* (observation only: the structure keeps the pointer)
                 fd |-> socketFD,
                 socket |-> slot,
                 ref_Close |->
                   IF networkRole = IP_SERVER
                   THEN (IF transportProtocol = IP_TCP THEN "CloseTCPServer"
                                                       ELSE "CloseUDPServer")
                   ELSE (IF transportProtocol = IP_TCP THEN "CloseTCPClient"
                                                       ELSE "CloseUDPClient"),
                 messageLength |-> IP_MAX_MESSAGE_LENGTH,
                 addressData |-> address,
                 server |-> NULL,
                 clientsList |-> << >>,
                 clientsCount |-> 0 ]
  IN [ K EXCEPT !.L = list, !.N = num, !.C = Append(K.C, conn) ]

\* AddClient: link client into the first empty slot among the first
\* clientsCount slots of the server's list, or after them
AddClient(K, server, client) ==
  LET srv   == K.C[server]
      count == srv.clientsCount
      holes == { i \in 1..count : srv.clientsList[i] = NULL }
      list  == IF holes # {}
               THEN [ srv.clientsList EXCEPT ![Min(holes)] = client ]
               ELSE Append(SubSeq(srv.clientsList, 1, count), client)
  IN [ K EXCEPT !.C[client].server = server,
                !.C[server].clientsList = list,
                !.C[server].clientsCount = count + 1 ]

\* RemoveSocket: mark the poller of socketFD removed, re-sort, shrink; close
RemoveSocket(K, socketFD) ==
  LET found == BSearchPolled(K.L, K.N, socketFD)
      list  == IF found = NULL THEN K.L
               ELSE QSortPolled([ K.L EXCEPT ![found].fd = REMOVED_FD ], K.N)
      num   == IF found = NULL THEN K.N ELSE K.N - 1
  IN [ K EXCEPT !.L = list, !.N = num, !.S = OsClose(K.S, socketFD) ]

\* RemoveClient: empty the client's slot if it is among the first
\* clientsCount slots of its server's list
RemoveClient(K, server, client) ==
  IF server = NULL THEN K
  ELSE LET srv  == K.C[server]
           hits == { i \in 1..srv.clientsCount :
                       i <= Len(srv.clientsList) /\ srv.clientsList[i] = client }
       IN IF hits = {} THEN K
          ELSE [ K EXCEPT !.C[server].clientsList[Min(hits)] = NULL,
                          !.C[server].clientsCount = srv.clientsCount - 1 ]

CloseTCPServer(K, server) ==
  [ RemoveSocket(K, SocketFd(K, server)) EXCEPT !.C[server].alive = FALSE ]

CloseTCPClient(K, client) ==
  LET K1 == RemoveClient(K, K.C[client].server, client)
  IN [ RemoveSocket(K1, SocketFd(K1, client)) EXCEPT !.C[client].alive = FALSE ]

\* CloseUDPServer: nothing while the clients count is not 0
CloseUDPServer(K, server) ==
  IF K.C[server].clientsCount = 0
  THEN [ RemoveSocket(K, SocketFd(K, server)) EXCEPT !.C[server].alive = FALSE ]
  ELSE K

\* CloseUDPClient: a client of its own closes its descriptor (the poller
\* stays); the last client of a server closes the server
CloseUDPClient(K, client) ==
  LET server == K.C[client].server
      K1 == RemoveClient(K, server, client)
      K2 == IF server = NULL
            THEN [ K1 EXCEPT !.S = OsClose(K1.S, SocketFd(K1, client)) ]
            ELSE IF K1.C[server].clientsCount = 0 THEN CloseUDPServer(K1, server)
            ELSE K1
  IN [ K2 EXCEPT !.C[client].alive = FALSE ]

IP_CloseConnection(K, ref) ==
  IF ref = NULL THEN K
  ELSE IF K.C[ref].ref_Close = "CloseTCPServer" THEN CloseTCPServer(K, ref)
  ELSE IF K.C[ref].ref_Close = "CloseUDPServer" THEN CloseUDPServer(K, ref)
  ELSE IF K.C[ref].ref_Close = "CloseUDPClient" THEN CloseUDPClient(K, ref)
  ELSE CloseTCPClient(K, ref)

\* Variant of LoadAddressInfo with a plausible fault: a NULL host is the
\* wildcard address for every role
LoadAddressInfo_AnyRole(host, port, networkRole) ==
  IF host = NULL THEN Address("AF_INET6", AnyHost, port)
  ELSE IF host = BadHost THEN NoAddress
  ELSE Address(HostFamily(host), host, port)

\* LoadAddressInfo: NULL (NoAddress) for a NULL host unless the role is
\* IP_SERVER, and for a host that does not resolve
LoadAddressInfo(host, port, networkRole) ==
  IF host = NULL
  THEN (IF networkRole = IP_SERVER THEN Address("AF_INET6", AnyHost, port)
        ELSE NoAddress)
  ELSE IF host = BadHost THEN NoAddress
  ELSE Address(HostFamily(host), host, port)

TRANSPORT_MASK(connectionType) == (connectionType \div 16) * 16

ROLE_MASK(connectionType) == connectionType % 16

\* CreateSocket: INVALID_SOCKET unless the protocol is IP_TCP or IP_UDP
CreateSocket(S, protocol) ==
  IF protocol \in { IP_TCP, IP_UDP } THEN OsSocket(S) ELSE INVALID_SOCKET

\* Variant of OpenSucceeds with a plausible fault: the switch on the type has
\* no default case
OpenSucceeds_AnyType(K, connectionType, host, port) ==
  /\ port >= PORT_MIN
  /\ LoadAddressInfo(host, port, ROLE_MASK(connectionType)) # NoAddress
  /\ CreateSocket(K.S, TRANSPORT_MASK(connectionType)) # INVALID_SOCKET
  /\ connectionType = IP_TCP + IP_SERVER => Listener(K.S, port) = INVALID_SOCKET
  /\ connectionType = IP_TCP + IP_CLIENT => Listener(K.S, port) # INVALID_SOCKET

\* IP_OpenConnection: the state after the call; the connection it returns is
\* the last of K.C when OpenSucceeds
OpenSucceeds(K, connectionType, host, port) ==
  /\ port >= PORT_MIN
  /\ LoadAddressInfo(host, port, ROLE_MASK(connectionType)) # NoAddress
  /\ CreateSocket(K.S, TRANSPORT_MASK(connectionType)) # INVALID_SOCKET
  /\ connectionType \in { IP_TCP + IP_SERVER, IP_TCP + IP_CLIENT,
                          IP_UDP + IP_SERVER, IP_UDP + IP_CLIENT }
  /\ connectionType = IP_TCP + IP_SERVER => Listener(K.S, port) = INVALID_SOCKET
  /\ connectionType = IP_TCP + IP_CLIENT => Listener(K.S, port) # INVALID_SOCKET

IP_OpenConnection(K, connectionType, host, port) ==
  LET address  == LoadAddressInfo(host, port, ROLE_MASK(connectionType))
      socketFD == CreateSocket(K.S, TRANSPORT_MASK(connectionType))
      lst      == Listener(K.S, port)
  IN
  IF port < PORT_MIN THEN K
  ELSE IF address = NoAddress THEN K
  ELSE IF socketFD = INVALID_SOCKET THEN K
  ELSE IF connectionType = IP_TCP + IP_SERVER THEN
    \* BindTCPServerSocket: bind and listen, close( socketFD ) on failure
    IF lst # INVALID_SOCKET THEN K
    ELSE AddConnection(
           [ K EXCEPT !.S[socketFD] =
               [ ClosedSocket EXCEPT !.state = "listen", !.port = port,
                                     !.family = address.family ] ],
           socketFD, address, IP_TCP, IP_SERVER)
  ELSE IF connectionType = IP_UDP + IP_SERVER THEN
    \* BindUDPServerSocket: bind (SO_REUSEADDR is set)
    AddConnection(
      [ K EXCEPT !.S[socketFD] =
          [ ClosedSocket EXCEPT !.state = "dgram", !.port = port,
                                !.family = address.family ] ],
      socketFD, address, IP_UDP, IP_SERVER)
  ELSE IF connectionType = IP_TCP + IP_CLIENT THEN
    \* ConnectTCPClientSocket: connect, close( socketFD ) on failure
    IF lst = INVALID_SOCKET THEN K
    ELSE AddConnection(
           [ K EXCEPT !.S[socketFD] =
               [ ClosedSocket EXCEPT !.state = "stream", !.port = port,
                                     !.family = address.family,
                                     !.listener = lst ],
             !.S[lst].pending =
               Append(@, [ from |-> socketFD, data |-> << >> ]) ],
           socketFD, address, IP_TCP, IP_CLIENT)
  ELSE IF connectionType = IP_UDP + IP_CLIENT THEN
    \* ConnectUDPClientSocket: bind to an arbitrary local port
    AddConnection(
      [ K EXCEPT !.S[socketFD] =
          [ ClosedSocket EXCEPT !.state = "dgram",
                                !.port = EphemeralPort(socketFD),
                                !.family = address.family ] ],
      socketFD, address, IP_UDP, IP_CLIENT)
  ELSE
    \* default: the switch returns NULL; the socket created stays open
    [ K EXCEPT !.S[socketFD] = [ ClosedSocket EXCEPT !.state = "unused" ] ]

\* IP_SetMessageLength: the length is clamped to IP_MAX_MESSAGE_LENGTH and
\* stored as a uint16_t
IP_SetMessageLengthResult(K, ref, messageLength) ==
  IF ref = NULL THEN 0
  ELSE IF messageLength > IP_MAX_MESSAGE_LENGTH THEN IP_MAX_MESSAGE_LENGTH
  ELSE messageLength % 65536

IP_SetMessageLength(K, ref, messageLength) ==
  IF ref = NULL THEN K
  ELSE [ K EXCEPT !.C[ref].messageLength =
                     IP_SetMessageLengthResult(K, ref, messageLength) ]

\* IP_GetAddress: the address string "<host>/<port>" of the connection, here
\* its port; NULL for no connection
IP_GetAddress(K, ref) ==
  IF ref = NULL THEN NULL ELSE K.C[ref].addressData.port

\* strlen( message ): the messages of the model are numbered; those with an
\* even number are 3 characters long, the others 1
StrLen(m) == IF m % 2 = 0 THEN 3 ELSE 1

\* Variant of SendTCPMessage with a plausible fault: the message goes out twice
SendTCPMessage_Twice(K, ref, m) ==
  [ K EXCEPT !.S = OsSend(OsSend(K.S, SocketFd(K, ref), m), SocketFd(K, ref), m) ]

SendTCPMessage(K, ref, m) ==
  [ K EXCEPT !.S = OsSend(K.S, SocketFd(K, ref), m) ]

SendTCPMessageResult(K, ref) ==
  IF OsSendOk(K.S, SocketFd(K, ref)) THEN 0 ELSE -1

\* SendUDPMessage: sendto() the connection's address
SendUDPMessage(K, ref, m) ==
  [ K EXCEPT !.S = OsSendTo(K.S, SocketFd(K, ref), K.C[ref].addressData, m) ]

SendUDPMessageResult(K, ref) ==
  IF OsSendToOk(K.S, SocketFd(K, ref)) THEN 0 ELSE -1

\* ref_SendMessage of a client connection (no address of the model is a
\* multicast address, so a server's is SendMessageAll)
ClientSendMessage(K, ref, m) ==
  IF K.C[ref].ref_Close = "CloseUDPClient" THEN SendUDPMessage(K, ref, m)
  ELSE SendTCPMessage(K, ref, m)

ClientSendMessageResult(K, ref) ==
  IF K.C[ref].ref_Close = "CloseUDPClient" THEN SendUDPMessageResult(K, ref)
  ELSE SendTCPMessageResult(K, ref)

\* SendMessageAll terminates only if none of the first clientsCount slots of
\* the list is empty (the index advances only past non-empty slots)
SendMessageAllReturns(K, ref) ==
  \A i \in 1..K.C[ref].clientsCount : K.C[ref].clientsList[i] # NULL

RECURSIVE SendToClients(_, _, _)
SendToClients(K, clients, m) ==
  IF clients = << >> THEN K
  ELSE SendToClients(
         IF StrLen(m) + 1 > K.C[Head(clients)].messageLength THEN K
         ELSE ClientSendMessage(K, Head(clients), m),
         Tail(clients), m)

SendMessageAll(K, ref, m) ==
  SendToClients(K, SubSeq(K.C[ref].clientsList, 1, K.C[ref].clientsCount), m)

\* Variant of IP_SendMessage with a plausible fault: the length of the
\* message is not compared with messageLength
IP_SendMessage_Unbounded(K, ref, m) ==
  IF IP_IsServer(K, ref) THEN SendMessageAll(K, ref, m)
  ELSE ClientSendMessage(K, ref, m)

\* IP_SendMessage: a message longer than the connection's messageLength is
\* not sent (returns 0); else ref_SendMessage, -1 when send() fails
IP_SendMessage(K, ref, m) ==
  IF StrLen(m) + 1 > K.C[ref].messageLength THEN K
  ELSE IF IP_IsServer(K, ref) THEN SendMessageAll(K, ref, m)
  ELSE ClientSendMessage(K, ref, m)

IP_SendMessageResult(K, ref, m) ==
  IF StrLen(m) + 1 > K.C[ref].messageLength THEN 0
  ELSE IF IP_IsServer(K, ref) THEN 0
  ELSE ClientSendMessageResult(K, ref)

\* ReceiveTCPMessage: the message (NULL when none), and the state after it;
\* a 0-byte read removes and closes the socket
\* recv( fd, buffer, messageLength, 0 ): with a message length of 0 a recv
\* that finds data returns 0 bytes, as at end-of-file
RecvKind(K, ref) ==
  LET kind == OsRecvKind(K.S, SocketFd(K, ref)) IN
  IF kind = "msg" /\ K.C[ref].messageLength = 0 THEN "eof" ELSE kind

ReceiveTCPMessageResult(K, ref) ==
  LET fd == SocketFd(K, ref) IN
  IF fd = INVALID_SOCKET THEN NULL
  ELSE IF RecvKind(K, ref) = "msg" THEN Head(K.S[fd].inbox)
  ELSE NULL

ReceiveTCPMessage(K, ref) ==
  LET fd == SocketFd(K, ref) IN
  IF fd = INVALID_SOCKET THEN K
  ELSE IF RecvKind(K, ref) = "msg" THEN [ K EXCEPT !.S[fd].inbox = Tail(@) ]
  ELSE IF RecvKind(K, ref) = "eof" THEN RemoveSocket(K, fd)
  ELSE K

\* AcceptTCPClient: accept() a pending connection; the new client is the
\* last of K.C when AcceptSucceeds
AcceptSucceeds(K, server) ==
  LET fd == SocketFd(K, server) IN
  /\ IsOpenFd(K.S, fd)
  /\ K.S[fd].state = "listen"
  /\ K.S[fd].pending # << >>
  /\ OsSocket(K.S) # INVALID_SOCKET

AcceptTCPClient(K, server) ==
  IF ~AcceptSucceeds(K, server) THEN K
  ELSE LET fd   == SocketFd(K, server)
           conn == Head(K.S[fd].pending)
           newFd == OsSocket(K.S)
           K1   == [ K EXCEPT
                      !.S[fd].pending = Tail(@),
                      !.S[newFd] = [ ClosedSocket EXCEPT
                                       !.state = "stream",
                                       !.port = K.S[fd].port,
                                       !.peer = conn.from,
                                       !.inbox = conn.data ],
                      !.S[conn.from].peer = newFd,
                      !.S[conn.from].listener = 0 ]
           K2   == AddConnection(K1, newFd,
                                 Address(K.S[fd].family,
                                         LocalHost(K.S[fd].family),
                                         EphemeralPort(conn.from)),
                                 IP_TCP, 0)
       IN AddClient(K2, server, Len(K2.C))

\* ReceiveUDPMessage: peek at the first datagram and take it only if its
\* source equals the connection's address. The address length passed to
\* recvfrom() is not initialised: the source address is read (addressRead) or
\* it is not and stays zeroed.
ReceiveUDPMatches(K, ref, addressRead) ==
  LET fd == SocketFd(K, ref) IN
  /\ OsPeekOk(K.S, fd)
  /\ ARE_EQUAL_IP_ADDRESSES(K.C[ref].addressData,
                            IF addressRead THEN OsPeekFrom(K.S, fd) ELSE NoAddress)

ReceiveUDPMessageResult(K, ref, addressRead) ==
  IF ReceiveUDPMatches(K, ref, addressRead)
  THEN Head(K.S[SocketFd(K, ref)].inbox).data
  ELSE NULL

ReceiveUDPMessage(K, ref, addressRead) ==
  IF ReceiveUDPMatches(K, ref, addressRead)
  THEN [ K EXCEPT !.S[SocketFd(K, ref)].inbox = Tail(@) ]
  ELSE K

\* IP_ReceiveMessage: ref_ReceiveMessage of a client connection
IP_ReceiveMessageResult(K, ref, addressRead) ==
  IF K.C[ref].ref_Close = "CloseUDPClient"
  THEN ReceiveUDPMessageResult(K, ref, addressRead)
  ELSE ReceiveTCPMessageResult(K, ref)

IP_ReceiveMessage(K, ref, addressRead) ==
  IF K.C[ref].ref_Close = "CloseUDPClient"
  THEN ReceiveUDPMessage(K, ref, addressRead)
  ELSE ReceiveTCPMessage(K, ref)

\* AcceptUDPClient: peek at the first datagram; a source that equals the
\* address of none of the first clientsCount clients of the list becomes a
\* new client on the server's descriptor. An empty slot among those is
\* dereferenced: nullEqual is what that comparison yields.
AcceptUDPReadsNull(K, server) ==
  /\ OsPeekOk(K.S, SocketFd(K, server))
  /\ \E i \in 1..K.C[server].clientsCount : K.C[server].clientsList[i] = NULL

AcceptUDPSucceeds(K, server, nullEqual) ==
  LET srv == K.C[server] IN
  /\ OsPeekOk(K.S, SocketFd(K, server))
  /\ \A i \in 1..srv.clientsCount :
        IF srv.clientsList[i] = NULL THEN ~nullEqual
        ELSE ~ARE_EQUAL_IP_ADDRESSES(K.C[srv.clientsList[i]].addressData,
                                     OsPeekFrom(K.S, SocketFd(K, server)))

AcceptUDPClient(K, server, nullEqual) ==
  IF ~AcceptUDPSucceeds(K, server, nullEqual) THEN K
  ELSE LET fd == SocketFd(K, server)
           K1 == AddConnection(K, fd, OsPeekFrom(K.S, fd), IP_UDP, 0)
       IN AddClient(K1, server, Len(K1.C))

\* IP_AcceptClient: ref_AcceptClient of a server connection
IP_AcceptSucceeds(K, server, nullEqual) ==
  IF K.C[server].ref_Close = "CloseUDPServer"
  THEN AcceptUDPSucceeds(K, server, nullEqual)
  ELSE AcceptSucceeds(K, server)

IP_AcceptClient(K, server, nullEqual) ==
  IF K.C[server].ref_Close = "CloseUDPServer"
  THEN AcceptUDPClient(K, server, nullEqual)
  ELSE AcceptTCPClient(K, server)

\* IP_WaitEvent: poll() stores the readiness of the first N pollers
PollRevents(K) ==
  [ i \in 1..Len(K.L) |->
      IF i <= K.N THEN [ K.L[i] EXCEPT !.revents = Readiness(K.S, K.L[i].fd) ]
      ELSE K.L[i] ]

IP_WaitEvent(K) ==
  Cardinality({ i \in 1..K.N : Readiness(K.S, K.L[i].fd) # "none" })

IP_IsDataAvailable(K, ref) ==
  IF ref = NULL THEN FALSE
  ELSE K.L[K.C[ref].socket].revents = "rd"

\* ------------------------------------------------------------------------
\* Thread-safe queue and map (threading library used by the facade)
\* ------------------------------------------------------------------------
NoHolder == << "none", 0 >>
AppThread == << "app", 0 >>
ReaderThread(s) == << "reader", s >>
WriterThread(s) == << "writer", s >>

TSQ_GetItemsCount(queue) == Len(queue)

\* Enqueue, TSQUEUE_WAIT: enabled only when there is room
TSQ_CanEnqueueWait(queue) == Len(queue) < QUEUE_MAX_ITEMS

\* Enqueue, TSQUEUE_NOWAIT: on a full queue the oldest item is overwritten
TSQ_EnqueueNoWait(queue, item) ==
  IF Len(queue) >= QUEUE_MAX_ITEMS THEN Append(Tail(queue), item)
  ELSE Append(queue, item)

TSQ_Dequeue(queue) == Tail(queue)

NoList == [ created |-> FALSE, items |-> << >>, nextID |-> 0 ]

TSM_Create == [ created |-> TRUE, items |-> << >>, nextID |-> 0 ]

TSM_Keys(map) == IF map.created THEN DOMAIN map.items ELSE {}

TSM_GetItemsCount(map) == Cardinality(TSM_Keys(map))

TSM_HasItem(map, id) == id \in TSM_Keys(map)

\* SetItem: the value is stored under the next identifier
TSM_SetItem(map, data) ==
  [ map EXCEPT
      !.items = [ i \in DOMAIN map.items \cup { map.nextID } |->
                    IF i = map.nextID THEN data ELSE map.items[i] ],
      !.nextID = map.nextID + 1 ]

\* AcquireItem waits while another thread holds the entry
TSM_CanAcquire(map, id) ==
  IF TSM_HasItem(map, id) THEN map.items[id].holder = NoHolder ELSE TRUE

TSM_AcquireItem(map, id, thread) ==
  IF TSM_HasItem(map, id) THEN [ map EXCEPT !.items[id].holder = thread ] ELSE map

TSM_ReleaseItem(map, id) ==
  IF TSM_HasItem(map, id) THEN [ map EXCEPT !.items[id].holder = NoHolder ] ELSE map

TSM_RemoveItem(map, id) ==
  IF TSM_HasItem(map, id)
  THEN [ map EXCEPT !.items = [ i \in DOMAIN map.items \ { id } |-> map.items[i] ] ]
  ELSE map

\* RunForAllKeys iterates a snapshot of the keys
TSM_KeysSnapshot(map) == SetToSortedSeq(TSM_Keys(map))

\* ------------------------------------------------------------------------
\* Threads
\* ------------------------------------------------------------------------
Slots == 1..MaxThreads

NoThread == [ pc |-> "none", keys |-> << >>, id |-> 0, newClient |-> NULL,
              newClientID |-> 0, detached |-> FALSE ]

FreeSlots(threads) == { s \in Slots : threads[s].pc = "none" }

\* Thread_Start: the new thread has not run yet
Thread_Start(threads) ==
  [ threads EXCEPT ![Min(FreeSlots(threads))] = [ NoThread EXCEPT !.pc = "start" ] ]

\* a thread that leaves its function: a thread nobody will join is reclaimed
ExitedThread(t) == IF t.detached THEN NoThread ELSE [ NoThread EXCEPT !.pc = "exited" ]

Running(threads) == { s \in Slots : threads[s].pc \notin { "none", "exited" } }

\* ------------------------------------------------------------------------
\* Asynchronous facade (async_ip_network.c)
\* ------------------------------------------------------------------------
K0 == [ S |-> sockets, L |-> polledSocketsList, N |-> polledSocketsNumber,
        C |-> connections ]

NoHist == [ written |-> << >>, sent |-> << >>, recv |-> << >>, read |-> << >>,
            overflow |-> FALSE, full |-> FALSE ]

ExtendHist(h, n) == [ r \in 1..n |-> IF r <= Len(h) THEN h[r] ELSE NoHist ]

SetK(K) ==
  /\ sockets' = K.S
  /\ polledSocketsList' = K.L
  /\ polledSocketsNumber' = K.N
  /\ connections' = K.C
  /\ UNCHANGED polledSocketsSet

UnchangedK ==
  UNCHANGED << sockets, polledSocketsList, polledSocketsNumber,
               polledSocketsSet, connections >>

UnchangedThreads ==
  UNCHANGED << readThreads, writeThreads, globalReadThread, globalWriteThread,
               fault >>

NewEntry(baseConnection) ==
  [ baseConnection |-> baseConnection, readQueue |-> << >>, writeQueue |-> << >>,
    discarded |-> FALSE, holder |-> NoHolder ]

\* AddAsyncConnection: creates the registry and starts the two workers when
\* there is no registry, then stores the new entry. The operators give the
\* registry and the threads after the call and the identifier returned.
AddAsyncConnectionEnabled ==
  globalConnectionsList.created
    \/ (FreeSlots(readThreads) # {} /\ FreeSlots(writeThreads) # {})

AddAsyncConnectionList(baseConnection) ==
  TSM_SetItem(IF globalConnectionsList.created THEN globalConnectionsList
              ELSE TSM_Create,
              NewEntry(baseConnection))

AddAsyncConnectionID ==
  IF globalConnectionsList.created THEN globalConnectionsList.nextID ELSE 0

AddAsyncConnectionReaders ==
  IF globalConnectionsList.created THEN readThreads ELSE Thread_Start(readThreads)

AddAsyncConnectionWriters ==
  IF globalConnectionsList.created THEN writeThreads ELSE Thread_Start(writeThreads)

AddAsyncConnectionReadHandle ==
  IF globalConnectionsList.created THEN globalReadThread
  ELSE Min(FreeSlots(readThreads))

AddAsyncConnectionWriteHandle ==
  IF globalConnectionsList.created THEN globalWriteThread
  ELSE Min(FreeSlots(writeThreads))

Idle == app.pc = "idle"

\* the arguments of OpenConnection when the call in progress is not one
NoArgs == << 0, 0, 0 >>

\* a call returns: its locals are gone, its result is left in ret
Return(op, id, ret) ==
  app' = [ pc |-> "idle", op |-> op, id |-> id, msg |-> 0, base |-> NULL,
           ret |-> ret, args |-> NoArgs ]

KnownIDs ==
  IF globalConnectionsList.created /\ globalConnectionsList.nextID > 0
  THEN 0..(globalConnectionsList.nextID - 1)
  ELSE { 0 }

\* what IP_OpenConnection returns: the connection it created, NULL when it
\* failed
IP_OpenConnectionResult(K, connectionType, host, port) ==
  IF OpenSucceeds(K, connectionType, host, port)
  THEN Len(IP_OpenConnection(K, connectionType, host, port).C)
  ELSE NULL

\* Variant of the test of that result with a plausible fault: no test
OpenFailed_Never(baseConnection) == FALSE

\* AsyncIP_OpenConnection's test of that result
OpenFailed(baseConnection) == baseConnection = NULL

\* AsyncIP_OpenConnection, first part: IP_OpenConnection
AsyncIP_OpenConnection(connectionType, host, port) ==
  /\ Idle
  /\ calls' = [ calls EXCEPT !.open = @ + 1 ]
  /\ LET K == IP_OpenConnection(K0, connectionType, host, port)
         baseConnection == IP_OpenConnectionResult(K0, connectionType, host, port)
     IN
       /\ SetK(K)
       /\ hist' = ExtendHist(hist, Len(K.C))
       \* the arguments stay visible until the next step of the application
       /\ IF OpenFailed(baseConnection)
          THEN app' = [ pc |-> "idle", op |-> "open", id |-> 0, msg |-> 0,
                        base |-> NULL, ret |-> IP_CONNECTION_INVALID_ID,
                        args |-> << connectionType, host, port >> ]
          ELSE app' = [ app EXCEPT !.pc = "open_add", !.op = "open",
                                   !.base = baseConnection,
                                   !.args = << connectionType, host, port >> ]
  /\ UNCHANGED << globalConnectionsList, isNetworkRunning, activeConnectionsNumber >>
  /\ UnchangedThreads

\* AsyncIP_OpenConnection, second part: AddAsyncConnection
AsyncIP_OpenConnectionAdd ==
  /\ app.pc = "open_add"
  /\ AddAsyncConnectionEnabled
  /\ globalConnectionsList' = AddAsyncConnectionList(app.base)
  /\ readThreads' = AddAsyncConnectionReaders
  /\ writeThreads' = AddAsyncConnectionWriters
  /\ globalReadThread' = AddAsyncConnectionReadHandle
  /\ globalWriteThread' = AddAsyncConnectionWriteHandle
  /\ Return("open", AddAsyncConnectionID, AddAsyncConnectionID)
  /\ UnchangedK
  /\ UNCHANGED << isNetworkRunning, activeConnectionsNumber, calls, fault, hist >>

\* AsyncIP_GetActivesNumber: the static counter is never reset, and the
\* indices 0 .. count-1 are the keys looked up
AsyncIP_GetActivesNumber ==
  /\ Idle
  /\ calls.count < MaxCounts
  /\ calls' = [ calls EXCEPT !.count = @ + 1 ]
  /\ LET size  == TSM_GetItemsCount(globalConnectionsList)
         found == Cardinality({ i \in 0..(size - 1) :
                                  TSM_HasItem(globalConnectionsList, i) })
     IN /\ activeConnectionsNumber' = activeConnectionsNumber + found
        /\ Return("count", 0, activeConnectionsNumber + found)
  /\ UnchangedK
  /\ UnchangedThreads
  /\ UNCHANGED << globalConnectionsList, isNetworkRunning, hist >>

\* A call that starts with TSM_AcquireItem waits (pc = op) while another
\* thread holds the entry
Calling(op, id) ==
  \/ Idle
  \/ (app.pc = op /\ app.id = id)

\* Variant of NotFound with a plausible fault: WriteMessage reports success
\* for an identifier that is not registered
NotFound_WriteAccepted(op) ==
  IF op = "getclient" THEN IP_CONNECTION_INVALID_ID
  ELSE IF op = "write" THEN 1
  ELSE 0

\* what a public function returns when TSM_AcquireItem finds no entry:
\* false, NULL or 0, and IP_CONNECTION_INVALID_ID from AsyncIP_GetClient
NotFound(op) ==
  IF op = "getclient" THEN IP_CONNECTION_INVALID_ID ELSE 0

\* AsyncIP_GetClientsNumber
AsyncIP_GetClientsNumber(serverID) ==
  /\ Calling("getclientsnumber", serverID)
  /\ IF ~TSM_CanAcquire(globalConnectionsList, serverID)
     THEN app' = [ app EXCEPT !.pc = "getclientsnumber",
                              !.op = "getclientsnumber", !.id = serverID ]
     ELSE IF ~TSM_HasItem(globalConnectionsList, serverID)
     THEN Return("getclientsnumber", serverID, NotFound("getclientsnumber"))
     ELSE Return("getclientsnumber", serverID,
                 IP_GetClientsNumber(K0,
                   globalConnectionsList.items[serverID].baseConnection))
  /\ UnchangedK
  /\ UnchangedThreads
  /\ UNCHANGED << globalConnectionsList, isNetworkRunning,
                  activeConnectionsNumber, calls, hist >>

\* AsyncIP_GetAddress (the entry is released before its base connection is
\* read)
AsyncIP_GetAddress(connectionID) ==
  /\ Calling("getaddress", connectionID)
  /\ IF ~TSM_CanAcquire(globalConnectionsList, connectionID)
     THEN app' = [ app EXCEPT !.pc = "getaddress", !.op = "getaddress",
                              !.id = connectionID ]
     ELSE IF ~TSM_HasItem(globalConnectionsList, connectionID)
     THEN Return("getaddress", connectionID, NotFound("getaddress"))
     ELSE Return("getaddress", connectionID,
                 IP_GetAddress(K0,
                   globalConnectionsList.items[connectionID].baseConnection))
  /\ UnchangedK
  /\ UnchangedThreads
  /\ UNCHANGED << globalConnectionsList, isNetworkRunning,
                  activeConnectionsNumber, calls, hist >>

\* AsyncIP_SetMessageLength returns: the length asked for stays visible
\* until the next step of the application
ReturnLength(connectionID, messageLength, ret) ==
  app' = [ pc |-> "idle", op |-> "setlength", id |-> connectionID,
           msg |-> messageLength, base |-> NULL, ret |-> ret, args |-> NoArgs ]

\* AsyncIP_SetMessageLength
AsyncIP_SetMessageLength(connectionID, messageLength) ==
  /\ \/ Idle
     \/ (app.pc = "setlength" /\ app.id = connectionID
           /\ app.msg = messageLength)
  /\ IF ~TSM_CanAcquire(globalConnectionsList, connectionID)
     THEN /\ app' = [ app EXCEPT !.pc = "setlength", !.op = "setlength",
                                 !.id = connectionID, !.msg = messageLength ]
          /\ UnchangedK
     ELSE IF ~TSM_HasItem(globalConnectionsList, connectionID)
     THEN /\ ReturnLength(connectionID, messageLength, NotFound("setlength"))
          /\ UnchangedK
     ELSE LET base == globalConnectionsList.items[connectionID].baseConnection IN
          /\ SetK(IP_SetMessageLength(K0, base, messageLength))
          /\ ReturnLength(connectionID, messageLength,
                          IP_SetMessageLengthResult(K0, base, messageLength))
  /\ UnchangedThreads
  /\ UNCHANGED << globalConnectionsList, isNetworkRunning,
                  activeConnectionsNumber, calls, hist >>

\* Variants of WriteQueueEnqueue with a plausible fault: an enqueue that
\* grows a full queue, and one that refuses the message on a full queue
WriteQueueEnqueue_Grow(writeQueue, message) == Append(writeQueue, message)

WriteQueueEnqueue_Refuse(writeQueue, message) ==
  IF Len(writeQueue) >= QUEUE_MAX_ITEMS THEN writeQueue
  ELSE Append(writeQueue, message)

\* AsyncIP_WriteMessage: TSQ_Enqueue( writeQueue, message, TSQUEUE_NOWAIT )
WriteQueueEnqueue(writeQueue, message) == TSQ_EnqueueNoWait(writeQueue, message)

\* AsyncIP_WriteMessage
AsyncIP_WriteMessage(connectionID, message) ==
  /\ \/ (Idle /\ calls.write < MaxWrites /\ message = calls.write + 1)
     \/ (app.pc = "write" /\ app.id = connectionID /\ app.msg = message)
  /\ calls' = IF Idle THEN [ calls EXCEPT !.write = @ + 1 ] ELSE calls
  /\ IF ~TSM_CanAcquire(globalConnectionsList, connectionID)
     THEN /\ app' = [ app EXCEPT !.pc = "write", !.op = "write",
                                 !.id = connectionID, !.msg = message ]
          /\ UNCHANGED << globalConnectionsList, hist >>
     ELSE IF ~TSM_HasItem(globalConnectionsList, connectionID)
     THEN /\ Return("write", connectionID, NotFound("write"))
          /\ UNCHANGED << globalConnectionsList, hist >>
     ELSE LET e == globalConnectionsList.items[connectionID] IN
          /\ globalConnectionsList' =
               [ globalConnectionsList EXCEPT
                   !.items[connectionID].writeQueue =
                      WriteQueueEnqueue(@, message) ]
          /\ hist' = IF e.baseConnection = NULL THEN hist
                     ELSE [ hist EXCEPT
                              ![e.baseConnection].written = Append(@, message),
                              ![e.baseConnection].overflow =
                                 (@ \/ TSQ_GetItemsCount(e.writeQueue)
                                         >= QUEUE_MAX_ITEMS) ]
          /\ Return("write", connectionID, 1)
  /\ UnchangedK
  /\ UnchangedThreads
  /\ UNCHANGED << isNetworkRunning, activeConnectionsNumber >>

\* Variant of IsClientEntry with a plausible fault: the role is not checked
IsClientEntry_Any(K, connection) == TRUE

\* AsyncIP_ReadMessage: if( !IP_IsServer( client->baseConnection ) )
IsClientEntry(K, connection) == ~IP_IsServer(K, connection.baseConnection)

\* AsyncIP_GetClient: if( IP_IsServer( server->baseConnection ) )
IsServerEntry(K, connection) == IP_IsServer(K, connection.baseConnection)

\* Variant of ReadMessageResult with a plausible fault: the newest message
\* of the queue is returned
ReadMessageResult_Newest(readQueue) == readQueue[Len(readQueue)]

\* AsyncIP_ReadMessage: the message dequeued into the buffer returned
ReadMessageResult(readQueue) == Head(readQueue)

\* AsyncIP_ReadMessage
AsyncIP_ReadMessage(clientID) ==
  /\ Calling("read", clientID)
  /\ IF ~TSM_CanAcquire(globalConnectionsList, clientID)
     THEN /\ app' = [ app EXCEPT !.pc = "read", !.op = "read", !.id = clientID ]
          /\ UNCHANGED << globalConnectionsList, hist >>
     ELSE IF ~TSM_HasItem(globalConnectionsList, clientID)
     THEN /\ Return("read", clientID, NotFound("read"))
          /\ UNCHANGED << globalConnectionsList, hist >>
     ELSE LET e == globalConnectionsList.items[clientID] IN
          IF IsClientEntry(K0, e)
               /\ TSQ_GetItemsCount(e.readQueue) > 0
          THEN /\ globalConnectionsList' =
                    [ globalConnectionsList EXCEPT
                        !.items[clientID].readQueue = TSQ_Dequeue(@) ]
               /\ hist' = IF e.baseConnection = NULL THEN hist
                          ELSE [ hist EXCEPT ![e.baseConnection].read =
                                                Append(@, ReadMessageResult(e.readQueue)) ]
               /\ Return("read", clientID, ReadMessageResult(e.readQueue))
          ELSE /\ Return("read", clientID, NULL)
               /\ UNCHANGED << globalConnectionsList, hist >>
  /\ UnchangedK
  /\ UnchangedThreads
  /\ UNCHANGED << isNetworkRunning, activeConnectionsNumber, calls >>

\* AsyncIP_GetClient
AsyncIP_GetClient(serverID) ==
  /\ Calling("getclient", serverID)
  /\ IF ~TSM_CanAcquire(globalConnectionsList, serverID)
     THEN /\ app' = [ app EXCEPT !.pc = "getclient", !.op = "getclient",
                                 !.id = serverID ]
          /\ UNCHANGED globalConnectionsList
     ELSE IF ~TSM_HasItem(globalConnectionsList, serverID)
     THEN /\ Return("getclient", serverID, NotFound("getclient"))
          /\ UNCHANGED globalConnectionsList
     ELSE LET e == globalConnectionsList.items[serverID] IN
          IF IsServerEntry(K0, e)
               /\ TSQ_GetItemsCount(e.readQueue) > 0
          THEN /\ globalConnectionsList' =
                    [ globalConnectionsList EXCEPT
                        !.items[serverID].readQueue = TSQ_Dequeue(@) ]
               /\ Return("getclient", serverID, Head(e.readQueue))
          ELSE /\ Return("getclient", serverID, IP_CONNECTION_INVALID_ID)
               /\ UNCHANGED globalConnectionsList
  /\ UnchangedK
  /\ UnchangedThreads
  /\ UNCHANGED << isNetworkRunning, activeConnectionsNumber, calls, hist >>

\* AsyncIP_CloseConnection, first part: under the entry's hold, close the
\* base connection, clear the pointer and discard both queues
AsyncIP_CloseConnection(connectionID) ==
  /\ \/ (Idle /\ calls.close < MaxCloses)
     \/ (app.pc = "close" /\ app.id = connectionID)
  /\ calls' = IF Idle THEN [ calls EXCEPT !.close = @ + 1 ] ELSE calls
  /\ IF ~TSM_CanAcquire(globalConnectionsList, connectionID)
     THEN /\ app' = [ app EXCEPT !.pc = "close", !.op = "close",
                                 !.id = connectionID ]
          /\ UNCHANGED globalConnectionsList
          /\ UnchangedK
     ELSE IF ~TSM_HasItem(globalConnectionsList, connectionID)
     THEN /\ Return("close", connectionID, NotFound("close"))
          /\ UNCHANGED globalConnectionsList
          /\ UnchangedK
     ELSE LET e == globalConnectionsList.items[connectionID] IN
          /\ SetK(IP_CloseConnection(K0, e.baseConnection))
          /\ globalConnectionsList' =
               [ globalConnectionsList EXCEPT
                   !.items[connectionID] =
                      [ e EXCEPT !.baseConnection = NULL,
                                 !.readQueue = << >>,
                                 !.writeQueue = << >>,
                                 !.discarded = TRUE ] ]
          /\ app' = [ app EXCEPT !.pc = "close_remove", !.op = "close",
                                 !.id = connectionID,
                                 !.base = e.baseConnection ]
  /\ UnchangedThreads
  /\ UNCHANGED << isNetworkRunning, activeConnectionsNumber, hist >>

\* AsyncIP_CloseConnection: TSM_RemoveItem
AsyncIP_CloseConnectionRemove ==
  /\ app.pc = "close_remove"
  /\ TSM_CanAcquire(globalConnectionsList, app.id)
  /\ globalConnectionsList' = TSM_RemoveItem(globalConnectionsList, app.id)
  /\ app' = [ app EXCEPT !.pc = "close_count" ]
  /\ UnchangedK
  /\ UnchangedThreads
  /\ UNCHANGED << isNetworkRunning, activeConnectionsNumber, calls, hist >>

\* AsyncIP_CloseConnection: the registry is empty: clear the running flag
AsyncIP_CloseConnectionCount ==
  /\ app.pc = "close_count"
  /\ IF TSM_GetItemsCount(globalConnectionsList) = 0
     THEN /\ isNetworkRunning' = FALSE
          /\ app' = [ app EXCEPT !.pc = "close_join_read" ]
     ELSE /\ Return("close", app.id, 0)
          /\ UNCHANGED isNetworkRunning
  /\ UnchangedK
  /\ UnchangedThreads
  /\ UNCHANGED << globalConnectionsList, activeConnectionsNumber, calls, hist >>

\* Thread_WaitExit( thread, 5000 ): the thread has left its function and is
\* joined, or the wait times out and the thread is left behind
Thread_WaitExit(threads, handle, timedOut) ==
  IF handle \notin Slots \/ threads[handle].pc = "none" THEN threads
  ELSE IF threads[handle].pc = "exited" THEN [ threads EXCEPT ![handle] = NoThread ]
  ELSE [ threads EXCEPT ![handle].detached = TRUE ]

Thread_WaitExitEnabled(threads, handle, timedOut) ==
  IF handle \notin Slots THEN TRUE
  ELSE IF threads[handle].pc \in { "none", "exited" } THEN TRUE
  ELSE timedOut /\ FreeSlots(threads) # {}

AsyncIP_CloseConnectionJoinRead(timedOut) ==
  /\ app.pc = "close_join_read"
  /\ Thread_WaitExitEnabled(readThreads, globalReadThread, timedOut)
  /\ timedOut = (globalReadThread \in Running(readThreads))
  /\ readThreads' = Thread_WaitExit(readThreads, globalReadThread, timedOut)
  /\ app' = [ app EXCEPT !.pc = "close_join_write" ]
  /\ UnchangedK
  /\ UNCHANGED << writeThreads, globalReadThread, globalWriteThread,
                  globalConnectionsList, isNetworkRunning,
                  activeConnectionsNumber, calls, fault, hist >>

AsyncIP_CloseConnectionJoinWrite(timedOut) ==
  /\ app.pc = "close_join_write"
  /\ Thread_WaitExitEnabled(writeThreads, globalWriteThread, timedOut)
  /\ timedOut = (globalWriteThread \in Running(writeThreads))
  /\ writeThreads' = Thread_WaitExit(writeThreads, globalWriteThread, timedOut)
  /\ app' = [ app EXCEPT !.pc = "close_discard" ]
  /\ UnchangedK
  /\ UNCHANGED << readThreads, globalReadThread, globalWriteThread,
                  globalConnectionsList, isNetworkRunning,
                  activeConnectionsNumber, calls, fault, hist >>

\* AsyncIP_CloseConnection: TSM_Discard, globalConnectionsList = NULL
AsyncIP_CloseConnectionDiscard ==
  /\ app.pc = "close_discard"
  /\ globalConnectionsList' = NoList
  /\ Return("close", app.id, 0)
  /\ UnchangedK
  /\ UnchangedThreads
  /\ UNCHANGED << isNetworkRunning, activeConnectionsNumber, calls, hist >>

\* ------------------------------------------------------------------------
\* Reader worker
\* ------------------------------------------------------------------------
NextKey(t) ==
  [ t EXCEPT !.keys = Tail(@), !.id = 0, !.newClient = NULL, !.newClientID = 0,
             !.pc = IF Tail(t.keys) = << >> THEN "loop" ELSE "acquire" ]

UnchangedApp == UNCHANGED << app, calls, activeConnectionsNumber, fault >>

UnchangedCalls == UNCHANGED << app, calls, activeConnectionsNumber >>

\* AsyncReadQueues: isNetworkRunning = true
AsyncReadQueuesStart(s) ==
  /\ readThreads[s].pc = "start"
  /\ isNetworkRunning' = TRUE
  /\ readThreads' = [ readThreads EXCEPT ![s].pc = "loop" ]
  /\ UnchangedK
  /\ UnchangedApp
  /\ UNCHANGED << writeThreads, globalReadThread, globalWriteThread,
                  globalConnectionsList, hist >>

\* AsyncReadQueues: while( isNetworkRunning )
AsyncReadQueuesLoop(s) ==
  /\ readThreads[s].pc = "loop"
  /\ readThreads' = [ readThreads EXCEPT ![s] =
        IF isNetworkRunning THEN [ @ EXCEPT !.pc = "wait" ] ELSE ExitedThread(@) ]
  /\ UnchangedK
  /\ UnchangedApp
  /\ UNCHANGED << writeThreads, globalReadThread, globalWriteThread,
                  globalConnectionsList, isNetworkRunning, hist >>

\* AsyncReadQueues: IP_WaitEvent( 5000 ) returns, with events (and the pass
\* over a snapshot of the keys starts) or on its timeout
AsyncReadQueuesWait(s) ==
  /\ readThreads[s].pc = "wait"
  /\ polledSocketsList' = PollRevents(K0)
  /\ LET keys == TSM_KeysSnapshot(globalConnectionsList) IN
       readThreads' = [ readThreads EXCEPT ![s] =
         IF IP_WaitEvent(K0) > 0 /\ keys # << >>
         THEN [ @ EXCEPT !.pc = "acquire", !.keys = keys ]
         ELSE [ @ EXCEPT !.pc = "loop" ] ]
  /\ UnchangedApp
  /\ UNCHANGED << sockets, polledSocketsNumber, polledSocketsSet, connections,
                  writeThreads, globalReadThread, globalWriteThread,
                  globalConnectionsList, isNetworkRunning, hist >>

\* ReadToQueue: TSM_AcquireItem
ReadToQueueAcquire(s) ==
  LET t == readThreads[s]
      id == Head(t.keys)
  IN
  /\ t.pc = "acquire"
  /\ TSM_CanAcquire(globalConnectionsList, id)
  /\ IF TSM_HasItem(globalConnectionsList, id)
     THEN /\ globalConnectionsList' =
               TSM_AcquireItem(globalConnectionsList, id, ReaderThread(s))
          /\ readThreads' = [ readThreads EXCEPT ![s].pc = "body", ![s].id = id ]
     ELSE /\ readThreads' = [ readThreads EXCEPT ![s] = NextKey(t) ]
          /\ UNCHANGED globalConnectionsList
  /\ UnchangedK
  /\ UnchangedApp
  /\ UNCHANGED << writeThreads, globalReadThread, globalWriteThread,
                  isNetworkRunning, hist >>

\* Variant of ReadQueueIsFull with a plausible fault: the check is missing
ReadQueueIsFull_Never(readQueue) == FALSE

\* ReadToQueue: if( TSQ_GetItemsCount( readQueue ) >= QUEUE_MAX_ITEMS )
ReadQueueIsFull(readQueue) == TSQ_GetItemsCount(readQueue) >= QUEUE_MAX_ITEMS

\* ReadToQueue, under the hold: skip a full queue; accept a client of a
\* server (the entry is released before AddAsyncConnection), or receive one
\* message of a client and enqueue it; release
ReadToQueueBody(s) ==
  LET t    == readThreads[s]
      e    == globalConnectionsList.items[t.id]
      base == e.baseConnection
      released == TSM_ReleaseItem(globalConnectionsList, t.id)
  IN
  /\ t.pc = "body"
  /\ IF ~TSM_HasItem(globalConnectionsList, t.id)
     THEN /\ readThreads' = [ readThreads EXCEPT ![s] = NextKey(t) ]
          /\ fault' = TRUE
          /\ UnchangedK
          /\ UNCHANGED << globalConnectionsList, hist >>
     ELSE IF ReadQueueIsFull(e.readQueue) \/ ~IP_IsDataAvailable(K0, base)
     THEN /\ globalConnectionsList' = released
          /\ readThreads' = [ readThreads EXCEPT ![s] = NextKey(t) ]
          /\ UnchangedK
          /\ UNCHANGED fault
          /\ hist' = IF ReadQueueIsFull(e.readQueue) /\ base # NULL
                     THEN [ hist EXCEPT ![base].full = TRUE ]
                     ELSE hist
     ELSE IF IP_IsServer(K0, base)
     THEN \E nullEqual \in IF AcceptUDPReadsNull(K0, base) THEN BOOLEAN
                            ELSE { FALSE } :
          LET K == IP_AcceptClient(K0, base, nullEqual) IN
          /\ SetK(K)
          /\ fault' = (fault \/ AcceptUDPReadsNull(K0, base))
          /\ hist' = ExtendHist(hist, Len(K.C))
          /\ globalConnectionsList' = released
          /\ readThreads' = [ readThreads EXCEPT ![s] =
               IF IP_AcceptSucceeds(K0, base, nullEqual)
               THEN [ t EXCEPT !.pc = "add", !.newClient = Len(K.C) ]
               ELSE NextKey(t) ]
     ELSE \E addressRead \in IF K0.C[base].ref_Close = "CloseUDPClient"
                              THEN BOOLEAN ELSE { TRUE } :
          LET m == IP_ReceiveMessageResult(K0, base, addressRead) IN
          /\ SetK(IP_ReceiveMessage(K0, base, addressRead))
          /\ UNCHANGED fault
          /\ globalConnectionsList' =
               IF m = NULL THEN released
               ELSE [ released EXCEPT !.items[t.id].readQueue = Append(@, m) ]
          /\ hist' = IF m = NULL THEN hist
                     ELSE [ hist EXCEPT ![base].recv = Append(@, m) ]
          /\ readThreads' = [ readThreads EXCEPT ![s] = NextKey(t) ]
  /\ UnchangedCalls
  /\ UNCHANGED << writeThreads, globalReadThread, globalWriteThread,
                  isNetworkRunning >>

\* ReadToQueue: AddAsyncConnection( newClient ), the server entry released
ReadToQueueAdd(s) ==
  LET t == readThreads[s] IN
  /\ t.pc = "add"
  /\ AddAsyncConnectionEnabled
  /\ globalConnectionsList' = AddAsyncConnectionList(t.newClient)
  /\ readThreads' = [ AddAsyncConnectionReaders EXCEPT
                        ![s].pc = "enqueue",
                        ![s].newClientID = AddAsyncConnectionID ]
  /\ writeThreads' = AddAsyncConnectionWriters
  /\ globalReadThread' = AddAsyncConnectionReadHandle
  /\ globalWriteThread' = AddAsyncConnectionWriteHandle
  /\ UnchangedK
  /\ UnchangedApp
  /\ UNCHANGED << isNetworkRunning, hist >>

\* ReadToQueue: TSQ_Enqueue( connection->readQueue, &newClientID, WAIT ),
\* through the entry pointer taken before the release
ReadToQueueEnqueue(s) ==
  LET t == readThreads[s] IN
  /\ t.pc = "enqueue"
  /\ IF TSM_HasItem(globalConnectionsList, t.id)
        /\ ~globalConnectionsList.items[t.id].discarded
     THEN /\ TSQ_CanEnqueueWait(globalConnectionsList.items[t.id].readQueue)
          /\ globalConnectionsList' =
               [ globalConnectionsList EXCEPT
                   !.items[t.id].readQueue = Append(@, t.newClientID) ]
     ELSE UNCHANGED globalConnectionsList
  /\ fault' = (fault \/ ~TSM_HasItem(globalConnectionsList, t.id))
  /\ readThreads' = [ readThreads EXCEPT ![s] = NextKey(t) ]
  /\ UnchangedK
  /\ UnchangedCalls
  /\ UNCHANGED << writeThreads, globalReadThread, globalWriteThread,
                  isNetworkRunning, hist >>

\* ------------------------------------------------------------------------
\* Writer worker
\* ------------------------------------------------------------------------
\* AsyncWriteQueues: isNetworkRunning = true
AsyncWriteQueuesStart(s) ==
  /\ writeThreads[s].pc = "start"
  /\ isNetworkRunning' = TRUE
  /\ writeThreads' = [ writeThreads EXCEPT ![s].pc = "loop" ]
  /\ UnchangedK
  /\ UnchangedApp
  /\ UNCHANGED << readThreads, globalReadThread, globalWriteThread,
                  globalConnectionsList, hist >>

\* AsyncWriteQueues: while( isNetworkRunning ): a pass over a snapshot of
\* the keys (after the sleep that ends the pass before)
AsyncWriteQueuesLoop(s) ==
  /\ writeThreads[s].pc = "loop"
  /\ LET keys == TSM_KeysSnapshot(globalConnectionsList) IN
       writeThreads' = [ writeThreads EXCEPT ![s] =
         IF ~isNetworkRunning THEN ExitedThread(@)
         ELSE IF keys = << >> THEN @
         ELSE [ @ EXCEPT !.pc = "acquire", !.keys = keys ] ]
  /\ UnchangedK
  /\ UnchangedApp
  /\ UNCHANGED << readThreads, globalReadThread, globalWriteThread,
                  globalConnectionsList, isNetworkRunning, hist >>

\* WriteFromQueue: TSM_AcquireItem
WriteFromQueueAcquire(s) ==
  LET t == writeThreads[s]
      id == Head(t.keys)
  IN
  /\ t.pc = "acquire"
  /\ TSM_CanAcquire(globalConnectionsList, id)
  /\ IF TSM_HasItem(globalConnectionsList, id)
     THEN /\ globalConnectionsList' =
               TSM_AcquireItem(globalConnectionsList, id, WriterThread(s))
          /\ writeThreads' = [ writeThreads EXCEPT ![s].pc = "body", ![s].id = id ]
     ELSE /\ writeThreads' = [ writeThreads EXCEPT ![s] = NextKey(t) ]
          /\ UNCHANGED globalConnectionsList
  /\ UnchangedK
  /\ UnchangedApp
  /\ UNCHANGED << readThreads, globalReadThread, globalWriteThread,
                  isNetworkRunning, hist >>

\* Variant of FirstMessage with a plausible fault: the newest message of the
\* queue is sent
FirstMessage_Newest(writeQueue) == writeQueue[Len(writeQueue)]

\* WriteFromQueue: TSQ_Dequeue( writeQueue, firstMessage, TSQUEUE_WAIT )
FirstMessage(writeQueue) == Head(writeQueue)

\* WriteFromQueue, under the hold: nothing on an empty queue; else dequeue
\* the first message and send it; release; a failed send leads to RemoveItem
WriteFromQueueBody(s) ==
  LET t    == writeThreads[s]
      e    == globalConnectionsList.items[t.id]
      base == e.baseConnection
      released == TSM_ReleaseItem(globalConnectionsList, t.id)
      firstMessage == FirstMessage(e.writeQueue)
  IN
  /\ t.pc = "body"
  /\ fault' = (fault \/ ~TSM_HasItem(globalConnectionsList, t.id))
  /\ IF ~TSM_HasItem(globalConnectionsList, t.id)
     THEN /\ writeThreads' = [ writeThreads EXCEPT ![s] = NextKey(t) ]
          /\ UnchangedK
          /\ UNCHANGED << globalConnectionsList, hist >>
     ELSE IF TSQ_GetItemsCount(e.writeQueue) = 0
     THEN /\ globalConnectionsList' = released
          /\ writeThreads' = [ writeThreads EXCEPT ![s] = NextKey(t) ]
          /\ UnchangedK
          /\ UNCHANGED hist
     ELSE IF IP_IsServer(K0, base) /\ ~SendMessageAllReturns(K0, base)
            /\ StrLen(firstMessage) + 1 <= K0.C[base].messageLength
     THEN /\ globalConnectionsList' =
               [ globalConnectionsList EXCEPT
                   !.items[t.id].writeQueue = TSQ_Dequeue(@) ]
          /\ writeThreads' = [ writeThreads EXCEPT ![s].pc = "send_all" ]
          /\ UnchangedK
          /\ UNCHANGED hist
     ELSE /\ SetK(IP_SendMessage(K0, base, firstMessage))
          /\ hist' = IF ~IP_IsServer(K0, base)
                        /\ StrLen(firstMessage) + 1 <= K0.C[base].messageLength
                        /\ IP_SendMessageResult(K0, base, firstMessage) = 0
                     THEN [ hist EXCEPT ![base].sent = Append(@, firstMessage) ]
                     ELSE hist
          /\ globalConnectionsList' =
               [ released EXCEPT !.items[t.id].writeQueue = TSQ_Dequeue(@) ]
          /\ writeThreads' = [ writeThreads EXCEPT ![s] =
               IF IP_SendMessageResult(K0, base, firstMessage) = -1
               THEN [ t EXCEPT !.pc = "remove" ]
               ELSE NextKey(t) ]
  /\ UnchangedCalls
  /\ UNCHANGED << readThreads, globalReadThread, globalWriteThread,
                  isNetworkRunning >>

\* WriteFromQueue: TSM_RemoveItem after a failed send
WriteFromQueueRemove(s) ==
  LET t == writeThreads[s] IN
  /\ t.pc = "remove"
  /\ TSM_CanAcquire(globalConnectionsList, t.id)
  /\ globalConnectionsList' = TSM_RemoveItem(globalConnectionsList, t.id)
  /\ writeThreads' = [ writeThreads EXCEPT ![s] = NextKey(t) ]
  /\ UnchangedK
  /\ UnchangedApp
  /\ UNCHANGED << readThreads, globalReadThread, globalWriteThread,
                  isNetworkRunning, hist >>

\* SendMessageAll on a client list with an empty slot among its first
\* clientsCount slots: the loop never advances, the entry stays held
SendMessageAllSpin(s) ==
  /\ writeThreads[s].pc = "send_all"
  /\ UNCHANGED vars

\* ------------------------------------------------------------------------
\* Specification
\* ------------------------------------------------------------------------
Init ==
  /\ sockets = [ fd \in FDs |-> ClosedSocket ]
  /\ polledSocketsList = [ i \in 1..PollCap |-> ZeroPoller ]
  /\ polledSocketsNumber = 0
  /\ polledSocketsSet = {}
  /\ connections = << >>
  /\ globalConnectionsList = NoList
  /\ isNetworkRunning = FALSE
  /\ activeConnectionsNumber = 0
  /\ readThreads = [ s \in Slots |-> NoThread ]
  /\ writeThreads = [ s \in Slots |-> NoThread ]
  /\ globalReadThread = 0
  /\ globalWriteThread = 0
  /\ app = [ pc |-> "idle", op |-> "none", id |-> 0, msg |-> 0, base |-> NULL,
             ret |-> 0, args |-> NoArgs ]
  /\ calls = [ open |-> 0, write |-> 0, close |-> 0, count |-> 0, dgram |-> 0 ]
  /\ fault = FALSE
  /\ hist = << >>

ReaderNext ==
  \E s \in Slots :
    \/ AsyncReadQueuesStart(s)
    \/ AsyncReadQueuesLoop(s)
    \/ AsyncReadQueuesWait(s)
    \/ ReadToQueueAcquire(s)
    \/ ReadToQueueBody(s)
    \/ ReadToQueueAdd(s)
    \/ ReadToQueueEnqueue(s)

WriterNext ==
  \E s \in Slots :
    \/ AsyncWriteQueuesStart(s)
    \/ AsyncWriteQueuesLoop(s)
    \/ WriteFromQueueAcquire(s)
    \/ WriteFromQueueBody(s)

CloseNext ==
  \/ \E id \in KnownIDs : AsyncIP_CloseConnection(id)
  \/ AsyncIP_CloseConnectionRemove
  \/ AsyncIP_CloseConnectionCount
  \/ \E timedOut \in BOOLEAN : AsyncIP_CloseConnectionJoinRead(timedOut)
  \/ \E timedOut \in BOOLEAN : AsyncIP_CloseConnectionJoinWrite(timedOut)
  \/ AsyncIP_CloseConnectionDiscard

\* the host string the TCP connections of the model are opened with
TcpHost == 3

OpenNext ==
  \/ \E type \in { IP_TCP + IP_SERVER, IP_TCP + IP_CLIENT } :
       /\ calls.open < MaxOpens
       /\ AsyncIP_OpenConnection(type, TcpHost, Port)
  \/ AsyncIP_OpenConnectionAdd

\* Connections opened and closed by the application while the two workers
\* run: no messages are written
Next ==
  \/ OpenNext
  \/ CloseNext
  \/ AsyncIP_GetActivesNumber
  \/ ReaderNext
  \/ WriterNext

Spec == Init /\ [][Next]_vars

\* A TCP server, a TCP client connected to it and the client the server
\* accepts; the application writes on the client it opened and reads on the
\* accepted one
IsOpenedClient(id) ==
  /\ TSM_HasItem(globalConnectionsList, id)
  /\ globalConnectionsList.items[id].baseConnection # NULL
  /\ ~IP_IsServer(K0, globalConnectionsList.items[id].baseConnection)
  /\ connections[globalConnectionsList.items[id].baseConnection].server = NULL

IsAcceptedClient(id) ==
  /\ TSM_HasItem(globalConnectionsList, id)
  /\ globalConnectionsList.items[id].baseConnection # NULL
  /\ connections[globalConnectionsList.items[id].baseConnection].server # NULL

\* Any pacing of a few writes and of reads against the two workers
FlowNext ==
  \/ OpenNext
  \/ \E id \in KnownIDs, m \in 1..MaxFlowWrites :
       /\ IsOpenedClient(id)
       /\ Idle => calls.write < MaxFlowWrites
       /\ AsyncIP_WriteMessage(id, m)
  \/ \E id \in KnownIDs : IsAcceptedClient(id) /\ AsyncIP_ReadMessage(id)
  \/ ReaderNext
  \/ WriterNext

SpecFlow == Init /\ [][FlowNext]_vars

\* A burst of writes, at any pace relative to the two workers, up to one more
\* than a queue holds; the application reads on the peer once it has written
\* them all
BurstNext ==
  \/ OpenNext
  \/ \E id \in KnownIDs, m \in 1..MaxWrites :
       /\ IsOpenedClient(id)
       /\ AsyncIP_WriteMessage(id, m)
  \/ \E id \in KnownIDs :
       /\ IsAcceptedClient(id)
       /\ calls.write = MaxWrites
       /\ Len(hist[globalConnectionsList.items[id].baseConnection].read) < MaxReads
       /\ AsyncIP_ReadMessage(id)
  \/ ReaderNext
  \/ WriterNext

SpecBurst == Init /\ [][BurstNext]_vars

\* the identifiers the application may pass: those assigned so far and the
\* next one, which is not registered
CallIDs ==
  0..(IF globalConnectionsList.created THEN globalConnectionsList.nextID ELSE 0)

Unregistered(id) == ~TSM_HasItem(globalConnectionsList, id)

\* GetClient, ReadMessage and WriteMessage called with identifiers of any
\* kind (a server, a client, none) and the other public functions called
\* with an identifier that is not registered, while the two workers run and
\* a message is on its way
CallsNext ==
  \/ OpenNext
  \/ \E id \in CallIDs : AsyncIP_GetClient(id)
  \/ \E id \in CallIDs : AsyncIP_ReadMessage(id)
  \/ \E id \in CallIDs : Unregistered(id) /\ AsyncIP_GetClientsNumber(id)
  \/ \E id \in CallIDs : Unregistered(id) /\ AsyncIP_GetAddress(id)
  \/ \E id \in CallIDs, m \in 1..MaxCallWrites :
       /\ Idle => calls.write < MaxCallWrites
       /\ AsyncIP_WriteMessage(id, m)
  \/ \E id \in CallIDs :
       /\ Unregistered(id)
       /\ AsyncIP_SetMessageLength(id, IP_MAX_MESSAGE_LENGTH)
  \/ \E id \in CallIDs :
       /\ Unregistered(id)
       /\ Idle => calls.close < MaxCallCloses
       /\ AsyncIP_CloseConnection(id)
  \/ ReaderNext
  \/ WriterNext

SpecCalls == Init /\ [][CallsNext]_vars

\* OpenConnection called with type bytes, hosts and ports of every kind, while
\* the two workers run
TypeBytes ==
  { t + r : t \in { 0, IP_TCP, IP_UDP, IP_TCP + IP_UDP }, r \in 0..3 }

OpenHosts == { NULL, 1, 3, BadHost }

OpenPorts == { PORT_MIN - 1, Port }

OpenAnyNext ==
  \/ \E type \in TypeBytes, host \in OpenHosts, port \in OpenPorts :
       /\ calls.open < MaxOpens
       /\ AsyncIP_OpenConnection(type, host, port)
  \/ AsyncIP_OpenConnectionAdd
  \/ ReaderNext
  \/ WriterNext

SpecOpen == Init /\ [][OpenAnyNext]_vars

\* The application sets the message length of the client it opened, writes
\* short and long messages on it and reads on the accepted client
LengthNext ==
  \/ OpenNext
  \/ \E id \in KnownIDs, messageLength \in { ShortLength, IP_MAX_MESSAGE_LENGTH } :
       /\ IsOpenedClient(id)
       /\ Idle => connections[globalConnectionsList.items[id].baseConnection]
                     .messageLength # messageLength
       /\ AsyncIP_SetMessageLength(id, messageLength)
  \/ \E id \in KnownIDs, m \in 1..MaxLengthWrites :
       /\ IsOpenedClient(id)
       /\ Idle => calls.write < MaxLengthWrites
       /\ AsyncIP_WriteMessage(id, m)
  \/ \E id \in KnownIDs : IsAcceptedClient(id) /\ AsyncIP_ReadMessage(id)
  \/ ReaderNext
  \/ WriterNext

SpecLength == Init /\ [][LengthNext]_vars

\* The hosts and ports datagrams come from: the peer the UDP client of the
\* model is opened for, another host using the same port, and the same host
\* using another port
UdpPeerHost == 1

UdpSources ==
  { [ host |-> UdpPeerHost, port |-> Port ],
    [ host |-> 2, port |-> Port ],
    [ host |-> UdpPeerHost, port |-> Port + 1 ] }

\* the network delivers a datagram from src to the datagram socket fd
DatagramArrives(fd, src) ==
  /\ calls.dgram < MaxDatagrams
  /\ sockets[fd].state = "dgram"
  /\ sockets' = OsDeliver(sockets, fd, src, calls.dgram + 1)
  /\ calls' = [ calls EXCEPT !.dgram = @ + 1 ]
  /\ UNCHANGED << polledSocketsList, polledSocketsNumber, polledSocketsSet,
                  connections, globalConnectionsList, isNetworkRunning,
                  activeConnectionsNumber, app, fault, hist >>
  /\ UnchangedThreads

\* UDP servers (bound to the wildcard address or to an IPv4 address) and UDP
\* clients opened and closed by the application while datagrams arrive and
\* the two workers run
UdpNext ==
  \/ \E host \in { NULL, UdpPeerHost } :
       /\ calls.open < MaxUdpOpens
       /\ AsyncIP_OpenConnection(IP_UDP + IP_SERVER, host, Port)
  \/ /\ calls.open < MaxUdpOpens
     /\ AsyncIP_OpenConnection(IP_UDP + IP_CLIENT, UdpPeerHost, Port)
  \/ AsyncIP_OpenConnectionAdd
  \/ \E fd \in FDs, src \in UdpSources : DatagramArrives(fd, src)
  \/ \E id \in KnownIDs :
       /\ Idle => calls.close < MaxUdpCloses
       /\ AsyncIP_CloseConnection(id)
  \/ AsyncIP_CloseConnectionRemove
  \/ AsyncIP_CloseConnectionCount
  \/ \E timedOut \in BOOLEAN : AsyncIP_CloseConnectionJoinRead(timedOut)
  \/ \E timedOut \in BOOLEAN : AsyncIP_CloseConnectionJoinWrite(timedOut)
  \/ AsyncIP_CloseConnectionDiscard
  \/ ReaderNext
  \/ WriterNext

SpecUdp == Init /\ [][UdpNext]_vars

\* a registered server
IsServerItem(id) ==
  /\ TSM_HasItem(globalConnectionsList, id)
  /\ IP_IsServer(K0, globalConnectionsList.items[id].baseConnection)

\* two hosts that send from the same port
ClientSources == { src \in UdpSources : src.port = Port }

\* A UDP server bound to the wildcard address accepts the sources of the
\* datagrams that arrive as clients; the application asks for the number of
\* clients and closes connections in any order
ClientsNext ==
  \/ /\ calls.open < MaxUdpOpens
     /\ AsyncIP_OpenConnection(IP_UDP + IP_SERVER, NULL, Port)
  \/ AsyncIP_OpenConnectionAdd
  \/ \E fd \in FDs, src \in ClientSources : DatagramArrives(fd, src)
  \/ \E id \in KnownIDs : IsServerItem(id) /\ AsyncIP_GetClientsNumber(id)
  \/ CloseNext
  \/ ReaderNext
  \/ WriterNext

SpecClients == Init /\ [][ClientsNext]_vars

\* the message lengths the application asks for
LengthInputs ==
  { 0, 1, ShortLength, IP_MAX_MESSAGE_LENGTH, IP_MAX_MESSAGE_LENGTH + 1 }

\* The application sets the message length of its connections to any value
SetLengthNext ==
  \/ OpenNext
  \/ \E id \in KnownIDs, messageLength \in LengthInputs :
       /\ TSM_HasItem(globalConnectionsList, id)
       /\ AsyncIP_SetMessageLength(id, messageLength)
  \/ ReaderNext
  \/ WriterNext

SpecSetLength == Init /\ [][SetLengthNext]_vars

\* The writer worker with the removal that follows a failed send
WriterRemoveNext ==
  \/ WriterNext
  \/ \E s \in Slots : WriteFromQueueRemove(s)

\* A TCP server, a TCP client connected to it and the client the server
\* accepts; the application closes some of them and writes on one, so that
\* a connection loses its peer and a send fails
PeerNext ==
  \/ OpenNext
  \/ \E id \in KnownIDs :
       /\ Idle => calls.close < MaxPeerCloses
       /\ AsyncIP_CloseConnection(id)
  \/ AsyncIP_CloseConnectionRemove
  \/ AsyncIP_CloseConnectionCount
  \/ \E timedOut \in BOOLEAN : AsyncIP_CloseConnectionJoinRead(timedOut)
  \/ \E timedOut \in BOOLEAN : AsyncIP_CloseConnectionJoinWrite(timedOut)
  \/ AsyncIP_CloseConnectionDiscard
  \/ \E id \in KnownIDs :
       /\ TSM_HasItem(globalConnectionsList, id)
       /\ Idle => calls.write < MaxPeerWrites
       /\ AsyncIP_WriteMessage(id, 1)
  \/ ReaderNext
  \/ WriterRemoveNext

SpecPeer == Init /\ [][PeerNext]_vars

\* A UDP server whose clients are accepted from the datagrams of two hosts;
\* the application closes a connection and writes a message on the server,
\* which the writer worker sends to every client (SendMessageAll)
BroadcastNext ==
  \/ /\ calls.open < MaxUdpOpens
     /\ AsyncIP_OpenConnection(IP_UDP + IP_SERVER, NULL, Port)
  \/ AsyncIP_OpenConnectionAdd
  \/ \E fd \in FDs, src \in ClientSources : DatagramArrives(fd, src)
  \/ \E id \in KnownIDs :
       /\ Idle => calls.close < MaxBroadcastCloses
       /\ AsyncIP_CloseConnection(id)
  \/ AsyncIP_CloseConnectionRemove
  \/ AsyncIP_CloseConnectionCount
  \/ \E timedOut \in BOOLEAN : AsyncIP_CloseConnectionJoinRead(timedOut)
  \/ \E timedOut \in BOOLEAN : AsyncIP_CloseConnectionJoinWrite(timedOut)
  \/ AsyncIP_CloseConnectionDiscard
  \/ \E id \in KnownIDs :
       /\ IsServerItem(id)
       /\ Idle => calls.write < MaxBroadcastWrites
       /\ AsyncIP_WriteMessage(id, 1)
  \/ ReaderNext
  \/ WriterNext
  \/ \E s \in Slots : SendMessageAllSpin(s)

SpecBroadcast == Init /\ [][BroadcastNext]_vars

\* A TCP server, then TCP clients of it; the application closes one
\* connection, whose peer then reads an end-of-file, opens another one and
\* writes a message
EofNext ==
  \/ /\ calls.open < MaxEofOpens
     /\ AsyncIP_OpenConnection(IF calls.open = 0 THEN IP_TCP + IP_SERVER
                                                 ELSE IP_TCP + IP_CLIENT,
                               TcpHost, Port)
  \/ AsyncIP_OpenConnectionAdd
  \/ \E id \in KnownIDs :
       /\ TSM_HasItem(globalConnectionsList, id)
       /\ Idle => calls.close < MaxEofCloses
       /\ AsyncIP_CloseConnection(id)
  \/ AsyncIP_CloseConnectionRemove
  \/ AsyncIP_CloseConnectionCount
  \/ \E timedOut \in BOOLEAN : AsyncIP_CloseConnectionJoinRead(timedOut)
  \/ \E timedOut \in BOOLEAN : AsyncIP_CloseConnectionJoinWrite(timedOut)
  \/ AsyncIP_CloseConnectionDiscard
  \/ \E id \in KnownIDs :
       /\ TSM_HasItem(globalConnectionsList, id)
       /\ Idle => calls.write < MaxEofWrites
       /\ AsyncIP_WriteMessage(id, 1)
  \/ ReaderNext
  \/ WriterRemoveNext

SpecEof == Init /\ [][EofNext]_vars

\* ------------------------------------------------------------------------
\* The select build (IP_NETWORK_LEGACY): the descriptor set and its
\* high-water mark
\* ------------------------------------------------------------------------
LegacyFds == 0..MaxLegacyFd

\* a >= b between two size_t values; a value of 2^w - n is written -n (an
\* int converted to size_t keeps its bits)
SizeGe(a, b) ==
  IF (a < 0) = (b < 0) THEN a >= b ELSE a < 0

\* AddConnection, select build: FD_SET and the high-water mark
AddConnectionLegacy(socketFD) ==
  /\ polledSocketsSet' = polledSocketsSet \cup { socketFD }
  /\ polledSocketsNumber' =
       IF SizeGe(socketFD, polledSocketsNumber) THEN socketFD + 1
       ELSE polledSocketsNumber
  /\ UNCHANGED << sockets, polledSocketsList, connections,
                  globalConnectionsList, isNetworkRunning,
                  activeConnectionsNumber, readThreads, writeThreads,
                  globalReadThread, globalWriteThread, app, calls, fault, hist >>

\* RemoveSocket, select build: FD_CLR and the high-water mark
RemoveSocketLegacy(socketFD) ==
  /\ polledSocketsSet' = polledSocketsSet \ { socketFD }
  /\ polledSocketsNumber' =
       IF SizeGe(socketFD + 1, polledSocketsNumber) THEN socketFD - 1
       ELSE polledSocketsNumber
  /\ UNCHANGED << sockets, polledSocketsList, connections,
                  globalConnectionsList, isNetworkRunning,
                  activeConnectionsNumber, readThreads, writeThreads,
                  globalReadThread, globalWriteThread, app, calls, fault, hist >>

\* Connections are added for descriptors that are not subscribed and the
\* descriptors of connections are removed, in any order
LegacyNext ==
  \/ \E socketFD \in LegacyFds \ polledSocketsSet : AddConnectionLegacy(socketFD)
  \/ \E socketFD \in polledSocketsSet : RemoveSocketLegacy(socketFD)

SpecLegacy == Init /\ [][LegacyNext]_vars

\* ------------------------------------------------------------------------
\* Properties
\* ------------------------------------------------------------------------
Workers == Running(readThreads) \cup Running(writeThreads)

\* C1: once CloseConnection has returned for the last registered ID (the
\* registry is gone and the application is between calls), every worker
\* that is left finds the running flag cleared on its next iteration, and
\* so leaves its loop: the flag is not set while such a worker runs.
C1_WorkersSeeClearedFlag ==
  (Idle /\ ~globalConnectionsList.created /\ Workers # {}) => ~isNetworkRunning

Refs == 1..Len(connections)

Items == globalConnectionsList.items

AcceptedRefs == { ref \in Refs : connections[ref].server # NULL }

\* the connection at the other end of the stream of connection ref
PeerRef(ref) ==
  LET fd == connections[ref].fd IN
  IF sockets[fd].state = "stream"
       /\ \E c \in Refs : connections[c].fd = sockets[fd].peer
  THEN CHOOSE c \in Refs : connections[c].fd = sockets[fd].peer
  ELSE NULL

\* the read queue of the registry entry of connection ref
ReadQueueOf(ref) ==
  IF \E id \in TSM_Keys(globalConnectionsList) : Items[id].baseConnection = ref
  THEN Items[CHOOSE id \in TSM_Keys(globalConnectionsList) :
               Items[id].baseConnection = ref].readQueue
  ELSE << >>

\* C2: in every reachable state the read queue and the write queue of every
\* registered connection hold at most QUEUE_MAX_ITEMS items each.
C2_QueuesBounded ==
  \A id \in TSM_Keys(globalConnectionsList) :
    /\ TSQ_GetItemsCount(Items[id].readQueue) <= QUEUE_MAX_ITEMS
    /\ TSQ_GetItemsCount(Items[id].writeQueue) <= QUEUE_MAX_ITEMS

\* C2, its case: a write queue at capacity after more writes than it holds
C2_WriteQueueAtCapacity ==
  \E id \in TSM_Keys(globalConnectionsList) :
    /\ Items[id].baseConnection # NULL
    /\ TSQ_GetItemsCount(Items[id].writeQueue) = QUEUE_MAX_ITEMS
    /\ Len(hist[Items[id].baseConnection].written) > QUEUE_MAX_ITEMS

C4_NoReordering ==
  \A c \in Refs :
    /\ IsSubSeq(hist[c].sent, hist[c].written)
    /\ ~hist[c].overflow => IsPrefix(hist[c].sent, hist[c].written)
    /\ IsPrefix(hist[c].read, hist[c].recv)

\* C4, its case: several messages sent on one end and read on the other
C4_SeveralSentAndRead ==
  /\ \E c \in Refs : Len(hist[c].sent) >= 3
  /\ \E a \in Refs : Len(hist[a].read) >= 3

\* C5: the value GetActivesNumber returned last is not more than the
\* number of registered connections (so it is 0 once all are closed, however
\* often it was called before).
C5_CountIsNumberOpen ==
  (Idle /\ app.op = "count") =>
     app.ret <= TSM_GetItemsCount(globalConnectionsList)

\* C6: the step of CloseConnection(id) that closes the base connection
\* leaves the connection's descriptor closed and both queues empty; when
\* the call returns, id is not in the registry; and no step of the call
\* changes or removes the registry entry of another ID.
C6_CloseDestroysOnlyItsEntry ==
  [][ /\ (app'.pc = "close_remove" /\ app.pc # "close_remove") =>
            /\ ~IsOpenFd(sockets', connections[app'.base].fd)
            /\ Items'[app'.id].readQueue = << >>
            /\ Items'[app'.id].writeQueue = << >>
      /\ (app.pc \in { "close_count", "close_discard" } /\ app'.pc = "idle") =>
            ~TSM_HasItem(globalConnectionsList', app.id)
      /\ (app' # app /\ app'.op = "close") =>
            \A other \in TSM_Keys(globalConnectionsList) \ { app'.id } :
              /\ TSM_HasItem(globalConnectionsList', other)
              /\ Items'[other] = Items[other]
    ]_vars

\* C7: a WriteMessage call that finds the write queue of a registered
\* connection full returns true; the queue then holds the messages it held
\* without the oldest, followed by the new message.
C7_WriteOnFullQueue ==
  [][ ( /\ app'.pc = "idle" /\ app'.op = "write"
        /\ calls'.write = calls.write + 1 \/ app.pc = "write"
        /\ TSM_HasItem(globalConnectionsList, app'.id)
        /\ TSQ_GetItemsCount(Items[app'.id].writeQueue) >= QUEUE_MAX_ITEMS )
      => /\ app'.ret = 1
         /\ Items'[app'.id].writeQueue =
              Append(Tail(Items[app'.id].writeQueue), calls'.write)
         /\ TSQ_GetItemsCount(Items'[app'.id].writeQueue) = QUEUE_MAX_ITEMS
    ]_vars

\* C7, its case: the write after QUEUE_MAX_ITEMS unsent writes was accepted
C7_OldestOverwritten ==
  \E id \in TSM_Keys(globalConnectionsList) :
    /\ Idle /\ app.op = "write" /\ app.id = id /\ app.ret = 1
    /\ Items[id].writeQueue = [ i \in 1..QUEUE_MAX_ITEMS |-> i + 1 ]

\* C8: a WriteMessage call never waits: the application is never inside
\* WriteMessage waiting for another thread.
C8_WriteNeverWaits == app.pc # "write"

\* messages sent to an accepted connection are in its socket or were
\* received; those received were read or are in its read queue
Conservation ==
  \A a \in AcceptedRefs :
    /\ PeerRef(a) # NULL =>
         hist[PeerRef(a)].sent = hist[a].recv \o sockets[connections[a].fd].inbox
    /\ hist[a].recv = hist[a].read \o ReadQueueOf(a)

\* C9: a step of the reader worker only appends to a read queue, and leaves
\* a full read queue as it is; the queue never exceeds QUEUE_MAX_ITEMS; the
\* messages sent to the connection and not enqueued are still in its socket.
C9_ReaderKeepsFullQueue ==
  [][ /\ readThreads' # readThreads =>
            \A id \in TSM_Keys(globalConnectionsList)
                         \cap TSM_Keys(globalConnectionsList') :
              /\ IsPrefix(Items[id].readQueue, Items'[id].readQueue)
              /\ TSQ_GetItemsCount(Items'[id].readQueue) <= QUEUE_MAX_ITEMS
              /\ TSQ_GetItemsCount(Items[id].readQueue) >= QUEUE_MAX_ITEMS =>
                    Items'[id].readQueue = Items[id].readQueue
      /\ Conservation'
    ]_vars

\* C9, its case: the reader found the read queue full, and a message the
\* connection was sent is still in the socket
C9_FullQueueSkipped ==
  \E a \in AcceptedRefs :
    /\ hist[a].full
    /\ ReadQueueOf(a) = [ i \in 1..QUEUE_MAX_ITEMS |-> hist[a].recv[i] ]
    /\ sockets[connections[a].fd].inbox # << >>

\* C10: a ReadMessage call on a registered client returns null and leaves
\* the read queue as it is when the queue is empty, and otherwise returns
\* the oldest message of the queue and removes it; it returns in the step in
\* which it gets the entry, whatever the queue holds.
C10_ReadTakesOldestOrNull ==
  [][ ( /\ app'.pc = "idle" /\ app'.op = "read"
        /\ app.pc \in { "idle", "read" }
        /\ readThreads' = readThreads /\ writeThreads' = writeThreads
        /\ TSM_HasItem(globalConnectionsList, app'.id)
        /\ ~IP_IsServer(K0, Items[app'.id].baseConnection) )
      => IF Items[app'.id].readQueue = << >>
         THEN /\ app'.ret = NULL
              /\ Items'[app'.id].readQueue = << >>
         ELSE /\ app'.ret = Head(Items[app'.id].readQueue)
              /\ Items'[app'.id].readQueue = Tail(Items[app'.id].readQueue)
    ]_vars

\* C10, its case: ReadMessage returned the second message while more were
\* queued behind it
C10_MessageRead ==
  \E a \in AcceptedRefs :
    /\ Idle /\ app.op = "read" /\ app.ret = 2
    /\ hist[a].read = << 1, 2 >>
    /\ ReadQueueOf(a) # << >>

\* C11: the step in which the reader worker enqueues the ID of a client it
\* accepted and registered appends that ID to the read queue of the server
\* that accepted it, and that server is still registered under the ID the
\* reader acquired.
C11_AcceptedIdEnqueued ==
  [][ \A s \in Slots :
        (readThreads[s].pc = "enqueue" /\ readThreads'[s].pc # "enqueue") =>
          /\ TSM_HasItem(globalConnectionsList, readThreads[s].id)
          /\ TSM_HasItem(globalConnectionsList', readThreads[s].id)
          /\ Items'[readThreads[s].id].readQueue =
               Append(Items[readThreads[s].id].readQueue,
                      readThreads[s].newClientID)
    ]_vars

\* the step is the return of a call of op that acquired the entry (or found
\* none) in this step
Returns(op) ==
  /\ app' # app
  /\ app'.pc = "idle" /\ app'.op = op
  /\ app.pc \in { "idle", op }

IsServerID(id) ==
  /\ TSM_HasItem(globalConnectionsList, id)
  /\ Items[id].baseConnection # NULL
  /\ connections[Items[id].baseConnection].ref_Close
       \in { "CloseTCPServer", "CloseUDPServer" }

IsClientID(id) ==
  /\ TSM_HasItem(globalConnectionsList, id)
  /\ Items[id].baseConnection # NULL
  /\ connections[Items[id].baseConnection].ref_Close
       \in { "CloseTCPClient", "CloseUDPClient" }

\* C13: ReadMessage on the identifier of a server returns NULL and GetClient
\* on the identifier of a client returns IP_CONNECTION_INVALID_ID; the call
\* leaves the entry as it was, its read queue included, and not held.
C13_WrongRoleRefused ==
  [][ /\ (Returns("read") /\ IsServerID(app'.id)) =>
            /\ app'.ret = NULL
            /\ Items'[app'.id] = Items[app'.id]
            /\ Items'[app'.id].holder = NoHolder
      /\ (Returns("getclient") /\ IsClientID(app'.id)) =>
            /\ app'.ret = IP_CONNECTION_INVALID_ID
            /\ Items'[app'.id] = Items[app'.id]
            /\ Items'[app'.id].holder = NoHolder
    ]_vars

\* C13, its case: ReadMessage on a server returned NULL while the identifier
\* of an accepted client waits in the server's read queue
C13_ReadOnServerRefused ==
  /\ Idle /\ app.op = "read" /\ app.ret = NULL
  /\ IsServerID(app.id)
  /\ Items[app.id].readQueue # << >>
  /\ Items[app.id].holder = NoHolder

\* C14: an OpenConnection whose synchronous open creates no connection returns
\* IP_CONNECTION_INVALID_ID and leaves the registry (its existence, its
\* entries and their queues, the next identifier) and the worker threads as
\* they were
C14_FailedOpenRegistersNothing ==
  [][ (calls'.open # calls.open /\ Len(connections') = Len(connections))
        => /\ app'.pc = "idle"
           /\ app'.op = "open"
           /\ app'.ret = IP_CONNECTION_INVALID_ID
           /\ globalConnectionsList' = globalConnectionsList
           /\ readThreads' = readThreads
           /\ writeThreads' = writeThreads
           /\ isNetworkRunning' = isNetworkRunning ]_vars

\* an open has failed before any succeeded: there is no registry and no worker
C14_FailedFirstOpen ==
  /\ Idle
  /\ app.op = "open"
  /\ app.ret = IP_CONNECTION_INVALID_ID
  /\ calls.open = 1
  /\ ~globalConnectionsList.created
  /\ \A s \in Slots : readThreads[s] = NoThread /\ writeThreads[s] = NoThread

OpenCalled == calls'.open # calls.open

FourTypes ==
  { IP_TCP + IP_SERVER, IP_TCP + IP_CLIENT, IP_UDP + IP_SERVER, IP_UDP + IP_CLIENT }

\* C16: an OpenConnection that creates a connection was called with one of
\* the type bytes 0x11, 0x12, 0x21, 0x22; with any other type byte it returns
\* IP_CONNECTION_INVALID_ID and creates no connection
C16_OnlyFourTypesOpen ==
  [][ OpenCalled =>
        /\ (Len(connections') > Len(connections) \/ app'.pc = "open_add")
             => app'.args[1] \in FourTypes
        /\ app'.args[1] \notin FourTypes
             => /\ app'.ret = IP_CONNECTION_INVALID_ID
                /\ app'.pc = "idle"
                /\ connections' = connections
                /\ globalConnectionsList' = globalConnectionsList ]_vars

\* a type byte with both transports set and a valid host and port was refused
C16_MixedTypeRefused ==
  /\ Idle
  /\ app.op = "open"
  /\ app.ret = IP_CONNECTION_INVALID_ID
  /\ TRANSPORT_MASK(app.args[1]) = IP_TCP + IP_UDP
  /\ app.args[2] = 1
  /\ app.args[3] = Port
  /\ connections = << >>

\* the writer of slot s takes its step under the hold of a client's entry
\* whose write queue is not empty
WriterSends(s) ==
  /\ writeThreads[s].pc = "body"
  /\ writeThreads'[s] # writeThreads[s]
  /\ TSM_HasItem(globalConnectionsList, writeThreads[s].id)
  /\ globalConnectionsList.items[writeThreads[s].id].writeQueue # << >>
  /\ ~IP_IsServer(K0, globalConnectionsList.items[writeThreads[s].id].baseConnection)

TooLong(s) ==
  LET e == globalConnectionsList.items[writeThreads[s].id] IN
  StrLen(Head(e.writeQueue)) + 1 > connections[e.baseConnection].messageLength

\* C17: when the writer dequeues a message m with len(m)+1 greater than the
\* connection's message length, no socket changes, m leaves the queue and is
\* not counted as sent, and the entry stays registered (the writer does not
\* go on to remove it); a message within the bound that the socket takes is
\* sent, whatever was dropped before
C17_TooLongDroppedNotFatal ==
  [][ \A s \in Slots :
        WriterSends(s) =>
          LET id == writeThreads[s].id
              e  == globalConnectionsList.items[id]
          IN
          IF TooLong(s)
          THEN /\ sockets' = sockets
               /\ connections' = connections
               /\ hist' = hist
               /\ TSM_HasItem(globalConnectionsList', id)
               /\ globalConnectionsList'.items[id].writeQueue = Tail(e.writeQueue)
               /\ writeThreads'[s].pc # "remove"
          ELSE ClientSendMessageResult(K0, e.baseConnection) = 0
                 => /\ sockets' # sockets
                    /\ hist'[e.baseConnection].sent =
                         Append(hist[e.baseConnection].sent, Head(e.writeQueue))
    ]_vars

\* the long message 2 was dropped and the short message 3 written after it
\* arrived at the peer, on a connection still registered
C17_ShortSentAfterDrop ==
  \E id \in KnownIDs :
    /\ IsOpenedClient(id)
    /\ LET base == globalConnectionsList.items[id].baseConnection IN
         /\ connections[base].messageLength = ShortLength
         /\ hist[base].written = << 1, 2, 3 >>
         /\ hist[base].sent = << 1, 3 >>
         /\ \E r \in DOMAIN hist : hist[r].recv = << 1, 3 >>

\* a UDP server the application has not closed: a registry entry refers to it
UdpServerOpen(r) ==
  \E id \in TSM_Keys(globalConnectionsList) :
    globalConnectionsList.items[id].baseConnection = r

\* the pseudo-clients of UDP server r that have not been closed
LivePseudoClients(r) ==
  { c \in DOMAIN connections : connections[c].alive /\ connections[c].server = r }

\* C18: while a UDP server or one of its pseudo-clients is still open, the
\* descriptor they share is open and in the poll set: closing a pseudo-client
\* closes it only if the server and every other pseudo-client have been
\* closed, and closing the server while pseudo-clients are live changes
\* nothing
C18_SharedDescriptorKept ==
  \A r \in DOMAIN connections :
    (/\ connections[r].ref_Close = "CloseUDPServer"
     /\ (UdpServerOpen(r) \/ LivePseudoClients(r) # {}))
      => /\ sockets[connections[r].fd].state = "dgram"
         /\ BSearchPolled(polledSocketsList, polledSocketsNumber,
                          connections[r].fd) # NULL

\* the reader of slot s takes its step under the hold of a live UDP server's
\* entry when a datagram waits on its descriptor and no slot of the client
\* list that it compares is empty
ReaderAcceptsUdp(s) ==
  LET id == readThreads[s].id IN
  /\ readThreads[s].pc = "body"
  /\ readThreads'[s] # readThreads[s]
  /\ TSM_HasItem(globalConnectionsList, id)
  /\ globalConnectionsList.items[id].baseConnection # NULL
  /\ LET e == globalConnectionsList.items[id] IN
       /\ connections[e.baseConnection].ref_Close = "CloseUDPServer"
       /\ connections[e.baseConnection].alive
       /\ ~ReadQueueIsFull(e.readQueue)
       /\ IP_IsDataAvailable(K0, e.baseConnection)
       /\ OsPeekOk(sockets, SocketFd(K0, e.baseConnection))
       /\ ~AcceptUDPReadsNull(K0, e.baseConnection)

\* C19: when a UDP server looks at a datagram, it creates a pseudo-client
\* for the datagram's source address exactly if no live pseudo-client of the
\* server has that address: distinct sources get distinct pseudo-clients,
\* and a source with a live pseudo-client gets no second one
C19_OnePseudoClientPerSource ==
  [][ \A s \in Slots :
        ReaderAcceptsUdp(s) =>
          LET base == globalConnectionsList.items[readThreads[s].id].baseConnection
              from == OsPeekFrom(sockets, SocketFd(K0, base))
          IN
          IF \E c \in LivePseudoClients(base) : connections[c].addressData = from
          THEN Len(connections') = Len(connections)
          ELSE /\ Len(connections') = Len(connections) + 1
               /\ connections'[Len(connections')].addressData = from
               /\ connections'[Len(connections')].server = base
    ]_vars

\* C20: a datagram that the reader enqueues for a UDP client opened by the
\* application comes from the client's configured remote address
C20_OnlyPeerDatagramsEnqueued ==
  [][ \A r \in DOMAIN hist :
        (/\ connections[r].ref_Close = "CloseUDPClient"
         /\ connections[r].server = NULL
         /\ connections[r].alive
         /\ hist'[r].recv # hist[r].recv)
          => Head(sockets[connections[r].fd].inbox).from = connections[r].addressData
    ]_vars

\* the clients a server accepted that have not been closed
LiveClients(r) ==
  { c \in DOMAIN connections : connections[c].alive /\ connections[c].server = r }

\* C21: for every server that has not been closed, GetClientsNumber is the
\* number of clients it accepted that are not yet closed, and no closed
\* client is in its client list; for a client GetClientsNumber is 1
C21_ClientsNumberIsLiveClients ==
  \A r \in DOMAIN connections :
    connections[r].alive =>
      IF IP_IsServer(K0, r)
      THEN /\ IP_GetClientsNumber(K0, r) = Cardinality(LiveClients(r))
           /\ \A i \in DOMAIN connections[r].clientsList :
                connections[r].clientsList[i] # NULL
                  => connections[connections[r].clientsList[i]].alive
      ELSE IP_GetClientsNumber(K0, r) = 1

\* C22: SetMessageLength(id, n) on a registered id stores and returns
\* min(n, IP_MAX_MESSAGE_LENGTH), and the message length of every connection
\* stays in 1..IP_MAX_MESSAGE_LENGTH
C22_LengthClampedInRange ==
  [][ /\ (/\ app' # app
          /\ app'.pc = "idle"
          /\ app'.op = "setlength"
          /\ TSM_HasItem(globalConnectionsList, app'.id)
          /\ globalConnectionsList.items[app'.id].baseConnection # NULL)
         => LET base == globalConnectionsList.items[app'.id].baseConnection IN
            /\ app'.ret = (IF app'.msg < IP_MAX_MESSAGE_LENGTH THEN app'.msg
                           ELSE IP_MAX_MESSAGE_LENGTH)
            /\ connections'[base].messageLength = app'.ret
      /\ \A r \in DOMAIN connections' :
           connections'[r].messageLength \in 1..IP_MAX_MESSAGE_LENGTH
    ]_vars

\* C23: whenever no Open or Close call is in progress, the reader worker
\* and the writer worker are both running and the registry holds at least
\* one connection, or both are stopped and the registry is empty
C23_WorkersRunIffRegistered ==
  Idle =>
    \/ /\ Running(readThreads) # {}
       /\ Running(writeThreads) # {}
       /\ TSM_GetItemsCount(globalConnectionsList) >= 1
    \/ /\ Running(readThreads) = {}
       /\ Running(writeThreads) = {}
       /\ TSM_GetItemsCount(globalConnectionsList) = 0

\* the descriptors in the poll set
PolledFds ==
  { polledSocketsList[i].fd : i \in 1..polledSocketsNumber }

\* C24: every descriptor in the poll set is the descriptor of at least one
\* live connection; so once a connection is closed its descriptor is out of
\* the poll set unless another live connection shares it
C24_PolledDescriptorsAreLive ==
  \A fd \in PolledFds :
    \E r \in DOMAIN connections :
      connections[r].alive /\ connections[r].fd = fd

\* the thread that holds an entry is inside ReadToQueue or WriteFromQueue
\* for that entry, at the point from which its next step releases it
HolderReleasesNext(id) ==
  LET holder == globalConnectionsList.items[id].holder IN
  \/ /\ holder[1] = "reader"
     /\ readThreads[holder[2]].pc = "body"
     /\ readThreads[holder[2]].id = id
  \/ /\ holder[1] = "writer"
     /\ writeThreads[holder[2]].pc = "body"
     /\ writeThreads[holder[2]].id = id

\* C25: while a thread holds a registry entry no RemoveItem of that ID takes
\* effect and no other thread acquires it (as long as the registry itself
\* exists), and every holder is on a path that releases the entry, so that
\* no entry stays held forever
C25_HeldEntryKeptAndReleased ==
  [][ \A id \in TSM_Keys(globalConnectionsList) :
        globalConnectionsList.items[id].holder # NoHolder =>
          /\ globalConnectionsList'.created =>
                /\ TSM_HasItem(globalConnectionsList', id)
                /\ globalConnectionsList'.items[id].holder
                      \in { globalConnectionsList.items[id].holder, NoHolder }
          /\ HolderReleasesNext(id)
    ]_vars

\* C30: SendMessageAll terminates on every client list that accepts and
\* closes produce (none of the first clientsCount slots of a live server's
\* list is empty), so no writer worker stays inside it with the server's
\* entry held
C30_BroadcastTerminates ==
  /\ \A r \in DOMAIN connections :
       (connections[r].alive /\ IP_IsServer(K0, r)) => SendMessageAllReturns(K0, r)
  /\ \A s \in Slots : writeThreads[s].pc # "send_all"

\* a send() or sendto() of the message fails under IP_SendMessage on the
\* connection: the connection's own, or one to a client of a server
SendFails(K, ref, m) ==
  IF ref = NULL THEN FALSE
  ELSE IF StrLen(m) + 1 > K.C[ref].messageLength THEN FALSE
  ELSE IF IP_IsServer(K, ref)
    THEN \E i \in 1..K.C[ref].clientsCount :
           /\ K.C[ref].clientsList[i] # NULL
           /\ StrLen(m) + 1 <= K.C[K.C[ref].clientsList[i]].messageLength
           /\ ClientSendMessageResult(K, K.C[ref].clientsList[i]) = -1
    ELSE ClientSendMessageResult(K, ref) = -1

\* the writer worker of slot s sends the first message of the entry it holds
WriterSendFails(s) ==
  LET t == writeThreads[s] IN
  /\ t.pc = "body"
  /\ writeThreads'[s] # t
  /\ TSM_HasItem(globalConnectionsList, t.id)
  /\ TSQ_GetItemsCount(Items[t.id].writeQueue) > 0
  /\ SendFails(K0, Items[t.id].baseConnection, FirstMessage(Items[t.id].writeQueue))

\* C26: whenever a send of the writer worker fails, for a connection of any
\* role and transport, the writer releases the entry and removes it on
\* that pass; the writer removes no other entry
C26_FailedSendRemovesEntry ==
  [][ \A s \in Slots :
        /\ WriterSendFails(s) =>
              /\ writeThreads'[s].pc = "remove"
              /\ writeThreads'[s].id = writeThreads[s].id
              /\ Items'[writeThreads[s].id].holder = NoHolder
        /\ (writeThreads'[s] # writeThreads[s] /\ globalConnectionsList.created) =>
              TSM_Keys(globalConnectionsList') =
                IF writeThreads[s].pc = "remove"
                THEN TSM_Keys(globalConnectionsList) \ { writeThreads[s].id }
                ELSE TSM_Keys(globalConnectionsList)
    ]_vars

\* a live TCP client connection
IsTcpClient(r) ==
  /\ r # NULL
  /\ connections[r].alive
  /\ connections[r].ref_Close = "CloseTCPClient"

\* the reader worker of slot s receives on a TCP client whose peer has
\* closed: recv() returns 0 bytes
ReaderReadsEof(s) ==
  LET t == readThreads[s] IN
  /\ t.pc = "body"
  /\ readThreads'[s] # t
  /\ TSM_HasItem(globalConnectionsList, t.id)
  /\ IsTcpClient(Items[t.id].baseConnection)
  /\ ~ReadQueueIsFull(Items[t.id].readQueue)
  /\ IP_IsDataAvailable(K0, Items[t.id].baseConnection)
  /\ RecvKind(K0, Items[t.id].baseConnection) = "eof"

\* a live TCP client whose descriptor was closed and taken out of the poll
\* set when its end-of-file was read
AfterEof(r) ==
  /\ IsTcpClient(r)
  /\ ~IsOpenFd(sockets, connections[r].fd)
  /\ connections[r].fd \notin PolledFds

\* C27: the reader worker removes the descriptor of a TCP client from the
\* poll set in the cycle in which it reads its end-of-file; the writer's
\* next send on that connection fails and the writer removes its entry;
\* until then, and until the application closes it, the connection stays
\* registered and unchanged
C27_EofThenRemovedOnSend ==
  [][ /\ \A s \in Slots :
           ReaderReadsEof(s) =>
             LET r == Items[readThreads[s].id].baseConnection IN
             /\ connections'[r].alive
             /\ ~IsOpenFd(sockets', connections[r].fd)
             /\ connections[r].fd \notin PolledFds'
      /\ \A s \in Slots :
           (/\ writeThreads[s].pc = "body"
            /\ writeThreads'[s] # writeThreads[s]
            /\ TSM_HasItem(globalConnectionsList, writeThreads[s].id)
            /\ AfterEof(Items[writeThreads[s].id].baseConnection)
            /\ TSQ_GetItemsCount(Items[writeThreads[s].id].writeQueue) > 0)
           => /\ writeThreads'[s].pc = "remove"
              /\ writeThreads'[s].id = writeThreads[s].id
      /\ \A id \in TSM_Keys(globalConnectionsList) :
           (AfterEof(Items[id].baseConnection) /\ globalConnectionsList'.created)
           => \/ /\ TSM_HasItem(globalConnectionsList', id)
                 /\ connections'[Items[id].baseConnection] =
                      IF Items'[id].baseConnection = NULL
                      THEN [ connections[Items[id].baseConnection]
                               EXCEPT !.alive = FALSE ]
                      ELSE connections[Items[id].baseConnection]
              \/ \E s \in Slots : /\ writeThreads[s].pc = "remove"
                                   /\ writeThreads[s].id = id
                                   /\ writeThreads'[s] # writeThreads[s]
    ]_vars

\* C29: the socket handle of every live connection designates the poll-set
\* entry of the connection's own descriptor, as long as that descriptor is in
\* the poll set, and never the descriptor of another connection
C29_HandleDesignatesOwnDescriptor ==
  \A r \in DOMAIN connections :
    connections[r].alive =>
      /\ connections[r].fd \in PolledFds =>
            /\ connections[r].socket <= polledSocketsNumber
            /\ SocketFd(K0, r) = connections[r].fd
      /\ \A q \in DOMAIN connections :
            (connections[q].alive /\ SocketFd(K0, r) = connections[q].fd)
              => connections[q].fd = connections[r].fd

\* C28: in the select build, after any inserts and removes, the high-water
\* mark passed to select() is strictly greater than every descriptor still
\* subscribed (a remove never lowers it below one past the largest
\* remaining descriptor) and it never wraps below zero
C28_HighWaterMarkCoversSet ==
  /\ \A socketFD \in polledSocketsSet : polledSocketsNumber > socketFD
  /\ polledSocketsNumber >= 0

\* C31: a thread reads or writes the fields of a registry entry only while
\* it holds the entry: the reader worker that enqueues the ID of an accepted
\* client on the server's read queue holds the server's entry at that step
C31_EntryUsedOnlyWhileHeld ==
  [][ \A s \in Slots :
        (readThreads[s].pc = "enqueue" /\ readThreads'[s].pc # "enqueue") =>
          /\ TSM_HasItem(globalConnectionsList, readThreads[s].id)
          /\ Items[readThreads[s].id].holder = ReaderThread(s)
    ]_vars


\* C32: no registry entry is acquirable while its base connection is null or
\* its queues are discarded: an entry that CloseConnection has closed is
\* either still held or already removed
C32_ClosedEntryNotAcquirable ==
  \A id \in TSM_Keys(globalConnectionsList) :
    (\/ Items[id].baseConnection = NULL
     \/ Items[id].discarded) => Items[id].holder # NoHolder


\* C33: CloseConnection discards the registry only once both workers have
\* left their loops: at the step that discards it no reader and no writer
\* worker is still in its function
C33_DiscardAfterWorkersLeft ==
  [][ (app.pc = "close_discard" /\ app'.pc # "close_discard") =>
        /\ Running(readThreads) = {}
        /\ Running(writeThreads) = {}
    ]_vars


\* C34: at any time there is at most one reader worker and at most one
\* writer worker in its function
C34_AtMostOneWorkerEach ==
  /\ Cardinality(Running(readThreads)) <= 1
  /\ Cardinality(Running(writeThreads)) <= 1


\* ------------------------------------------------------------------------
\* Descriptor numbers given out again
\* ------------------------------------------------------------------------
MaxReuseOpens == 3
MaxReuseCloses == 2

\* A TCP server, then TCP clients of it; the application closes two
\* connections and opens a client after the first close, so that the
\* descriptor number of a connection that read its end-of-file is given out
\* again; no messages are written
ReuseNext ==
  \/ /\ calls.open < MaxReuseOpens
     /\ AsyncIP_OpenConnection(IF calls.open = 0 THEN IP_TCP + IP_SERVER
                                                 ELSE IP_TCP + IP_CLIENT,
                               TcpHost, Port)
  \/ AsyncIP_OpenConnectionAdd
  \/ \E id \in KnownIDs :
       /\ TSM_HasItem(globalConnectionsList, id)
       /\ Idle => calls.close < MaxReuseCloses
       /\ AsyncIP_CloseConnection(id)
  \/ AsyncIP_CloseConnectionRemove
  \/ AsyncIP_CloseConnectionCount
  \/ \E timedOut \in BOOLEAN : AsyncIP_CloseConnectionJoinRead(timedOut)
  \/ \E timedOut \in BOOLEAN : AsyncIP_CloseConnectionJoinWrite(timedOut)
  \/ AsyncIP_CloseConnectionDiscard
  \/ ReaderNext
  \/ WriterNext

SpecReuse == Init /\ [][ReuseNext]_vars

\* C35: closing a TCP client does not close, shut down or remove from the
\* poll set a descriptor with the client's number that belongs to another
\* live connection (the client's own descriptor was closed on its
\* end-of-file and the number has since been given out again)
C35_CloseSparesReusedDescriptor ==
  [][ \A r \in Refs :
        (IsTcpClient(r) /\ ~connections'[r].alive) =>
          \A q \in Refs :
            (q # r /\ connections[q].alive
                   /\ connections[q].fd = connections[r].fd)
              => /\ IsOpenFd(sockets', connections[r].fd)
                      = IsOpenFd(sockets, connections[r].fd)
                 /\ (connections[r].fd \in PolledFds')
                      = (connections[r].fd \in PolledFds)
    ]_vars


\* C36: no surviving connection refers to a closed server: the server a
\* live connection points to (whose client list and clients count its close
\* reads and modifies) is itself live
C36_NoReferenceToClosedServer ==
  \A r \in Refs :
    (connections[r].alive /\ connections[r].server # NULL)
      => connections[connections[r].server].alive


\* C37: a failed OpenConnection leaves the system as it was: the call adds
\* no poll-set entry and no OS socket it created remains open
C37_FailedOpenLeavesNothing ==
  [][ (/\ calls'.open = calls.open + 1
       /\ app'.pc = "idle"
       /\ app'.ret = IP_CONNECTION_INVALID_ID)
        => /\ sockets' = sockets
           /\ polledSocketsList' = polledSocketsList
           /\ polledSocketsNumber' = polledSocketsNumber
    ]_vars


\* ------------------------------------------------------------------------
\* Datagrams at the head of a socket, under fair scheduling
\* ------------------------------------------------------------------------
\* A UDP server or a UDP client is opened and is never closed; datagrams
\* arrive from the configured peer and from other sources while the two
\* workers run
HeadNext ==
  \/ /\ calls.open < MaxUdpOpens
     /\ AsyncIP_OpenConnection(IP_UDP + IP_SERVER, UdpPeerHost, Port)
  \/ /\ calls.open < MaxUdpOpens
     /\ AsyncIP_OpenConnection(IP_UDP + IP_CLIENT, UdpPeerHost, Port)
  \/ AsyncIP_OpenConnectionAdd
  \/ \E fd \in FDs, src \in UdpSources : DatagramArrives(fd, src)
  \/ ReaderNext
  \/ WriterNext

\* AsyncReadQueues runs in a thread of its own: each of its steps is taken
\* when it stays possible; TSM_AcquireItem gets the entry when it is free
\* again and again; a receive that can take a datagram does take it
ReaderFair ==
  \A s \in Slots :
    /\ WF_vars(AsyncReadQueuesStart(s))
    /\ WF_vars(AsyncReadQueuesLoop(s))
    /\ WF_vars(AsyncReadQueuesWait(s))
    /\ SF_vars(ReadToQueueAcquire(s))
    /\ WF_vars(ReadToQueueBody(s))
    /\ SF_vars(ReadToQueueBody(s) /\ sockets' # sockets)
    /\ WF_vars(ReadToQueueAdd(s))
    /\ WF_vars(ReadToQueueEnqueue(s))

\* AsyncWriteQueues runs in a thread of its own as well
WriterFair ==
  \A s \in Slots :
    /\ WF_vars(AsyncWriteQueuesStart(s))
    /\ WF_vars(AsyncWriteQueuesLoop(s))
    /\ SF_vars(WriteFromQueueAcquire(s))
    /\ WF_vars(WriteFromQueueBody(s))

SpecHead == Init /\ [][HeadNext]_vars

SpecHeadFair == Init /\ [][HeadNext]_vars /\ ReaderFair /\ WriterFair

\* datagram n waits in the socket of a registered UDP client connection
\* whose configured peer sent it
WaitsFromPeer(n) ==
  \E id \in TSM_Keys(globalConnectionsList) :
    LET r == Items[id].baseConnection IN
    /\ r # NULL
    /\ connections[r].alive
    /\ connections[r].ref_Close = "CloseUDPClient"
    /\ \E i \in 1..Len(sockets[connections[r].fd].inbox) :
         LET d == sockets[connections[r].fd].inbox[i] IN
         /\ d.data = n
         /\ d.from = connections[r].addressData

\* datagram n was enqueued on the read queue of a connection
Enqueued(n) ==
  \E r \in 1..Len(hist) :
    \E i \in 1..Len(hist[r].recv) : hist[r].recv[i] = n

\* C38: under fair scheduling of the workers, every datagram that the
\* configured peer of a registered UDP connection sent to its socket is
\* eventually enqueued, whatever datagram is at the head of the socket
C38_PeerDatagramEventuallyEnqueued ==
  \A n \in 1..MaxDatagrams : WaitsFromPeer(n) ~> Enqueued(n)


\* C39: the poll set is not mutated by one thread while another waits on it
\* or reads readiness bits from it: while a reader worker is in its event
\* wait or in the pass that reads the bits the wait stored, only that worker
\* itself inserts into or removes from the poll set
C39_PollSetMutationExcluded ==
  [][ \A s \in Slots :
        (/\ readThreads[s].pc \in { "wait", "acquire", "body" }
         /\ \/ polledSocketsNumber' # polledSocketsNumber
            \/ \E i \in 1..PollCap :
                 polledSocketsList'[i].fd # polledSocketsList[i].fd)
          => readThreads'[s] # readThreads[s]
    ]_vars

====
